---- MODULE Spec2Model ----
(***************************************************************************)
(* A state-machine model of the maccms10 search / playback service         *)
(* (src/main.py).  Two specifications are given:                           *)
(*                                                                         *)
(*   Spec        the search_movie endpoint: source selection, one          *)
(*               concurrent fetch_and_parse_search_result task per source  *)
(*               (retry loop, detail enrichment) and the merge after       *)
(*               asyncio.gather.                                           *)
(*   SpecDetail  the two sequential detail-fetch loops: fetch_episodes_data*)
(*               (with the play-list extraction) and get_playback_info.    *)
(*                                                                         *)
(* Python strings that the code takes apart are sequences of one-character *)
(* strings; None is the string "None" where it is stringified and a        *)
(* boolean flag where the code tests it.                                   *)
(***************************************************************************)
EXTENDS Integers, Sequences, FiniteSets, TLC

VARIABLES
    pc,                     \* search_movie_endpoint: "idle", "gather", "done", "raised"
    specified_source_name,  \* tool_input.source_name
    sources_to_search,      \* the selected sources, in registry order
    task,                   \* per source key: the fetch_single_source coroutine
    completed,              \* source keys in the order their tasks finished
    results,                \* what asyncio.gather returned
    all_videos,             \* the merged hit list the endpoint returns
    failed_sources,         \* the endpoint's failure entries
    successful_sources,     \* the endpoint's success counter
    http_error,             \* the HTTPException the endpoint raised, if any
    call,                   \* the running fetch_episodes_data / get_playback_info call
    proxy,                  \* the running /proxy/ request
    batch,                  \* a call of fetch_video_details on its own
    issued                  \* the calls of generate_video_id so far, with their ids

search_vars == <<pc, specified_source_name, sources_to_search, task, completed,
                 results, all_videos, failed_sources, successful_sources, http_error>>
vars == <<pc, specified_source_name, sources_to_search, task, completed,
          results, all_videos, failed_sources, successful_sources, http_error, call, proxy, batch, issued>>

(***************************************************************************)
(* Bounds and program constants                                            *)
(***************************************************************************)
\* the longest 'list' an origin answers a search with
MaxItems == 2

\* fetch_and_parse_search_result: max_retries = 3
max_retries == 3

\* fetch_video_details: video_ids[:20]
DetailBatchCap == 20

\* the longest play group (in '#'-separated entries) an origin answers with
MaxEntries == 3

\* fetch_episodes_data: max_retries = 3
ep_max_retries == 3

\* get_playback_info_endpoint: max_retries = 3
pb_max_retries == 3

(***************************************************************************)
(* Generic helpers                                                         *)
(***************************************************************************)
RECURSIVE Pow2(_)
Pow2(n) == IF n = 0 THEN 1 ELSE 2 * Pow2(n - 1)

Take(s, n) == SubSeq(s, 1, IF Len(s) < n THEN Len(s) ELSE n)

Range(s) == {s[i] : i \in 1..Len(s)}

(***************************************************************************)
(* The source registry (config.json through load_sources): key -> Source.  *)
(* A dict keeps insertion order, so the registry is a sequence.            *)
(***************************************************************************)
Registry ==
    << [key |-> "k1", name |-> "A"],
       [key |-> "k2", name |-> "B"] >>

Keys == {Registry[i].key : i \in 1..Len(Registry)}

SourceOf(k) == CHOOSE s \in Range(Registry) : s.key = k

\* tool_input.source_name: None, or a string ("" is falsy in Python)
NoName == "<None>"
SourceNames == {NoName, "", "A", "B", "X"}

Truthy(name) == name # NoName /\ name # ""

(***************************************************************************)
(* Exceptions: the classes the handlers distinguish, with their base       *)
(* classes (httpx, json, pydantic), and the first except clause of a chain *)
(* that catches a class.                                                   *)
(***************************************************************************)
Bases(exc) ==
    CASE exc = "HTTPStatusError" -> {"HTTPStatusError", "HTTPError", "Exception"}
      [] exc = "ConnectError"    -> {"ConnectError", "NetworkError", "TransportError",
                                     "RequestError", "HTTPError", "Exception"}
      [] exc = "ConnectTimeout"  -> {"ConnectTimeout", "TimeoutException", "TransportError",
                                     "RequestError", "HTTPError", "Exception"}
      [] exc = "ReadTimeout"     -> {"ReadTimeout", "TimeoutException", "TransportError",
                                     "RequestError", "HTTPError", "Exception"}
      [] exc = "JSONDecodeError" -> {"JSONDecodeError", "ValueError", "Exception"}
      [] exc = "ValidationError" -> {"ValidationError", "ValueError", "Exception"}
      [] exc = "ValueError"      -> {"ValueError", "Exception"}
      [] OTHER                   -> {exc, "Exception"}

RECURSIVE Catches(_, _)
Catches(chain, exc) ==
    IF chain = <<>> THEN "uncaught"
    ELSE IF Head(chain) \in Bases(exc) THEN Head(chain)
    ELSE Catches(Tail(chain), exc)

\* the except clauses of fetch_and_parse_search_result, in order
SearchExcepts ==
    <<"HTTPStatusError", "ConnectError", "RequestError", "JSONDecodeError", "Exception">>

\* a variant that also backs off on the generic RequestError clause
SearchRetryingRequestError == {"HTTPStatusError", "ConnectError", "RequestError"}

\* the clauses of that chain that back off and try again
SearchRetrying == {"HTTPStatusError", "ConnectError"}

(***************************************************************************)
(* What an origin can do with one GET                                      *)
(***************************************************************************)
IdOf(i) == <<"1", "2", "3", "4", "5", "6">>[i]

\* an item of a search 'list': vod_id, whether vod_name, vod_time and
\* type_name (the required fields of VideoResult) are all present, and
\* whether it has a vod_remarks: the items "1", "3", "5" of the catalog have
Item(i, complete) ==
    [vod_id |-> IdOf(i), complete |-> complete, vod_remarks |-> i % 2 = 1]

ItemList(n, lastComplete) ==
    [i \in 1..n |-> Item(i, IF i = n THEN lastComplete ELSE TRUE)]

\* a response body: not JSON at all, JSON without a 'list', or JSON with one
NoBody == [json |-> FALSE, has_list |-> FALSE, list |-> <<>>]
BadJson == NoBody
JsonNoList == [json |-> TRUE, has_list |-> FALSE, list |-> <<>>]
JsonList(l) == [json |-> TRUE, has_list |-> TRUE, list |-> l]

SearchBodies ==
    {BadJson, JsonNoList}
    \cup {JsonList(ItemList(n, TRUE)) : n \in 0..MaxItems}
    \cup {JsonList(ItemList(n, FALSE)) : n \in 1..MaxItems}

NoResponse == [status |-> 0, body |-> NoBody]

\* client.get either raises a transport error or returns a response
SearchOutcomes ==
    {[kind |-> "raise", exc |-> e, response |-> NoResponse] :
        e \in {"ConnectError", "ConnectTimeout", "ReadTimeout"}}
    \cup {[kind |-> "response", exc |-> "none", response |-> [status |-> c, body |-> BadJson]] :
        c \in {404, 500}}
    \cup {[kind |-> "response", exc |-> "none", response |-> [status |-> 200, body |-> b]] :
        b \in SearchBodies}

(***************************************************************************)
(* fetch_and_parse_search_result / fetch_single_source: one task           *)
(***************************************************************************)
\* log entries of a task: each outbound GET and each asyncio.sleep
GetEv(attempt) == [ev |-> "get", n |-> attempt]
SleepEv(seconds) == [ev |-> "sleep", n |-> seconds]
DetailEv(nids) == [ev |-> "detail", n |-> nids]

Pending == [kind |-> "pending", val |-> <<>>, exc |-> "none"]
Returned(videos) == [kind |-> "list", val |-> videos, exc |-> "none"]
Raised(exc) == [kind |-> "exc", val |-> <<>>, exc |-> exc]

NoTask ==
    [pc |-> "none", attempt |-> 0, log |-> <<>>, response |-> NoResponse,
     origin |-> NoResponse, detail_info |-> {}, detail_raised |-> "none",
     raised |-> "none", ret |-> Pending,
     opened |-> 0, open |-> {}, carried |-> <<>>]

\* the coroutine object created at line 373, not yet started
NewTask == [NoTask EXCEPT !.pc = "created"]

\* a variant that keeps the response of an earlier attempt once one is bound
BindResponseOnce(old, new) == IF old.status = 0 THEN new ELSE old

\* response = await client.get(url, ...): the name is bound to the new response
BindResponse(old, new) == new

\* a variant with a linear back-off
wait_time_linear(attempt) == 2 * attempt

\* wait_time = 2 ** attempt
wait_time(attempt) == Pow2(attempt)

\* if attempt < max_retries - 1: sleep and go round again; else: return []
HasAttemptLeft(attempt) == attempt < max_retries - 1

\* for attempt in range(max_retries): the next iteration, or the end of the
\* loop and the 'return []' after it (lines 527-529)
NextIteration(t) ==
    IF t.attempt + 1 < max_retries
    THEN [t EXCEPT !.pc = "request", !.attempt = @ + 1]
    ELSE [t EXCEPT !.pc = "done", !.ret = Returned(<<>>)]

\* the except clauses: a retrying clause backs off while an attempt is left,
\* every other clause (and a retrying clause on the last attempt) returns [].
\* 'raised' keeps the exception the current attempt ended in
HandleSearchExc(t, exc) ==
    LET clause == Catches(SearchExcepts, exc) IN
    IF clause \in SearchRetrying /\ HasAttemptLeft(t.attempt)
    THEN NextIteration([t EXCEPT !.raised = exc,
                                 !.log = Append(@, SleepEv(wait_time(t.attempt)))])
    ELSE [t EXCEPT !.pc = "done", !.raised = exc, !.ret = Returned(<<>>)]

\* video_ids = [str(item.get('vod_id')) for item in data['list'] if item.get('vod_id')]
VideoIds(list) == [i \in 1..Len(list) |-> list[i].vod_id]

\* lines 442-465: one VideoResult per item, in the origin's order; the detail
\* record of the same id, if the detail map has one, supplies the enrichment
\* ('detail' names that record).  remarks is the vod_remarks of the record
\* or, failing that, of the item itself (line 464)
Video(src, item, detail_info) ==
    LET found == {d \in detail_info : d.vod_id = item.vod_id} IN
    [source_key |-> src.key, source_name |-> src.name, video_id |-> item.vod_id,
     detail |-> IF found # {} THEN item.vod_id ELSE "None",
     remarks |-> IF \E d \in found : d.vod_remarks THEN "detail"
                 ELSE IF item.vod_remarks THEN "item"
                 ELSE "None"]

BuildVideos(src, list, detail_info) ==
    [i \in 1..Len(list) |-> Video(src, list[i], detail_info)]

\* a variant that returns the hits built before the item that fails
FinishSearchPartial(t, src, detail_info) ==
    LET list == t.response.body.list
        built == CHOOSE n \in 0..Len(list) :
                    /\ \A i \in 1..n : list[i].complete
                    /\ n < Len(list) => ~list[n + 1].complete IN
    [t EXCEPT !.pc = "done", !.detail_info = detail_info,
              !.raised = IF built < Len(list) THEN "ValidationError" ELSE @,
              !.ret = Returned(BuildVideos(src, Take(list, built), detail_info))]

\* VideoResult(...) raises a ValidationError for an item without a title,
\* update time or category; the task's 'except Exception' turns it into []
FinishSearch(t, src, detail_info) ==
    LET list == t.response.body.list IN
    IF \E i \in 1..Len(list) : ~list[i].complete
    THEN HandleSearchExc([t EXCEPT !.detail_info = detail_info], "ValidationError")
    ELSE [t EXCEPT !.pc = "done", !.detail_info = detail_info,
                   !.ret = Returned(BuildVideos(src, list, detail_info))]

\* lines 425-470 up to the detail request: raise_for_status, response.json(),
\* the test of data['list'], and the call of fetch_video_details
AfterResponse(t, src) ==
    LET r == t.response IN
    IF r.status >= 400 THEN HandleSearchExc(t, "HTTPStatusError")
    ELSE IF ~r.body.json THEN HandleSearchExc(t, "JSONDecodeError")
    ELSE IF r.body.has_list /\ r.body.list # <<>>
    THEN [t EXCEPT !.pc = "detail_await",
                   !.log = Append(@, DetailEv(Len(Take(VideoIds(r.body.list), DetailBatchCap)))),
                   !.carried = Append(@, t.opened)]
    ELSE [t EXCEPT !.pc = "done", !.ret = Returned(<<>>)]

\* fetch_video_details answers with the records the origin returned, by id
\* (the detail records "2", "4", "6" of the catalog have a vod_remarks); an
\* exception in it, whatever its class, gives the empty map
DetailOutcomes(t) ==
    {[ok |-> FALSE, exc |-> e, records |-> {}] :
        e \in {"HTTPStatusError", "ConnectError", "JSONDecodeError", "AttributeError"}}
    \cup {[ok |-> TRUE, exc |-> "none",
            records |-> {[vod_id |-> v, vod_remarks |-> v \in {"2", "4", "6"}] : v \in S}] :
            S \in SUBSET Range(Take(VideoIds(t.response.body.list), DetailBatchCap))}

\* a variant in which an exception of the detail request reaches the except
\* clauses of the search
AfterDetailsPropagating(t, src, d) ==
    IF d.ok THEN FinishSearch(t, src, d.records)
    ELSE HandleSearchExc([t EXCEPT !.detail_raised = d.exc], d.exc)

\* lines 438-440: detail_info is whatever fetch_video_details returned
AfterDetails(t, src, d) ==
    FinishSearch([t EXCEPT !.detail_raised = d.exc], src, d.records)

\* lines 370-371: the return, or the exception, that ends the coroutine
\* leaves the 'async with' block, which closes the client
WithExit(t) == IF t.pc = "done" THEN [t EXCEPT !.open = {}] ELSE t

Finish(k, t) ==
    /\ task' = [task EXCEPT ![k] = WithExit(t)]
    /\ completed' = IF t.pc = "done" THEN Append(completed, k) ELSE completed

\* async with httpx.AsyncClient(...) as client: the scope opens
TaskStart(k) ==
    /\ pc = "gather" /\ task[k].pc = "created"
    /\ Finish(k, [task[k] EXCEPT !.pc = "request", !.opened = @ + 1,
                                 !.open = @ \cup {task[k].opened + 1}])
    /\ UNCHANGED <<pc, specified_source_name, sources_to_search, results, all_videos,
                   failed_sources, successful_sources, http_error, call, proxy, batch, issued>>

\* the client cannot be constructed (line 370 is outside every try of the
\* task): the exception leaves the coroutine
TaskStartFails(k) ==
    /\ pc = "gather" /\ task[k].pc = "created"
    /\ Finish(k, [task[k] EXCEPT !.pc = "done", !.raised = "OSError", !.ret = Raised("OSError")])
    /\ UNCHANGED <<pc, specified_source_name, sources_to_search, results, all_videos,
                   failed_sources, successful_sources, http_error, call, proxy, batch, issued>>

\* client.get(url) is issued for the current attempt
TaskGet(k) ==
    /\ pc = "gather" /\ task[k].pc = "request"
    /\ Finish(k, [task[k] EXCEPT !.pc = "await", !.raised = "none",
                                 !.log = Append(@, GetEv(task[k].attempt)),
                                 !.carried = Append(@, task[k].opened)])
    /\ UNCHANGED <<pc, specified_source_name, sources_to_search, results, all_videos,
                   failed_sources, successful_sources, http_error, call, proxy, batch, issued>>

\* the GET of the current attempt ends: a transport error or a response
TaskResponse(k) ==
    /\ pc = "gather" /\ task[k].pc = "await"
    /\ \E o \in SearchOutcomes :
        LET t == [task[k] EXCEPT !.origin = o.response] IN
        IF o.kind = "raise"
        THEN Finish(k, HandleSearchExc(t, o.exc))
        ELSE Finish(k, AfterResponse(
                 [t EXCEPT !.response = BindResponse(t.response, o.response)], SourceOf(k)))
    /\ UNCHANGED <<pc, specified_source_name, sources_to_search, results, all_videos,
                   failed_sources, successful_sources, http_error, call, proxy, batch, issued>>

\* fetch_video_details returns and the hits are built
TaskDetailResponse(k) ==
    /\ pc = "gather" /\ task[k].pc = "detail_await"
    /\ \E d \in DetailOutcomes(task[k]) :
        Finish(k, AfterDetails(task[k], SourceOf(k), d))
    /\ UNCHANGED <<pc, specified_source_name, sources_to_search, results, all_videos,
                   failed_sources, successful_sources, http_error, call, proxy, batch, issued>>

(***************************************************************************)
(* search_movie_endpoint                                                   *)
(***************************************************************************)
\* lines 345-364: the sources a request selects.  With a (truthy) name the
\* first source of that name, in registry order; without one, all of them
RECURSIVE FirstNamed(_, _)
FirstNamed(sources, name) ==
    IF sources = <<>> THEN <<>>
    ELSE IF Head(sources).name = name THEN <<Head(sources)>>
    ELSE FirstNamed(Tail(sources), name)

\* a variant that falls back to every source when the name is unknown
SelectSourcesOrAll(name) ==
    IF Truthy(name) /\ FirstNamed(Registry, name) # <<>>
    THEN FirstNamed(Registry, name) ELSE Registry

SelectSources(name) == IF Truthy(name) THEN FirstNamed(Registry, name) ELSE Registry

\* available_sources = [source.name for source in sources_config.root.values()]
AvailableSources == [i \in 1..Len(Registry) |-> Registry[i].name]

NoError == [status_code |-> 0, name |-> NoName, available |-> <<>>]

Selected == {sources_to_search[i].key : i \in 1..Len(sources_to_search)}

\* a variant without return_exceptions=True: the first exception ends the wait
GatherReadyFailFast ==
    \/ \A k \in Selected : task[k].pc = "done"
    \/ \E k \in Selected : task[k].ret.kind = "exc"

\* asyncio.gather(*tasks, return_exceptions=True) returns once every task has
\* finished, with a result or with an exception
GatherReady == \A k \in Selected : task[k].pc = "done"

\* a variant that lists the outcomes in the order the tasks finished
GatherResultsAsCompleted == [i \in 1..Len(completed) |-> task[completed[i]].ret]

\* ... and its value lists the tasks' outcomes in the order of the tasks
GatherResults == [i \in 1..Len(sources_to_search) |-> task[sources_to_search[i].key].ret]

\* lines 378-397: the loop over the gathered results
RECURSIVE MergeLoop(_, _, _)
MergeLoop(i, res, acc) ==
    IF i > Len(res) THEN acc
    ELSE LET source_name == sources_to_search[i].name IN
         IF res[i].kind = "list"
         THEN MergeLoop(i + 1, res,
                  [acc EXCEPT !.all_videos = @ \o res[i].val,
                              !.successful_sources = @ + 1])
         ELSE IF res[i].kind = "exc"
         THEN MergeLoop(i + 1, res,
                  [acc EXCEPT !.failed_sources =
                      Append(@, [source_name |-> source_name, reason |-> res[i].exc])])
         ELSE MergeLoop(i + 1, res, acc)

Merge(res) ==
    MergeLoop(1, res, [all_videos |-> <<>>, failed_sources |-> <<>>, successful_sources |-> 0])

\* POST /tools/search_movie: select the sources; an unknown name raises the
\* HTTPException(400) before any task exists, otherwise one task per source
SearchRequest ==
    /\ pc = "idle"
    /\ \E name \in SourceNames :
        LET sel == SelectSources(name) IN
        /\ specified_source_name' = name
        /\ IF Truthy(name) /\ sel = <<>>
           THEN /\ pc' = "raised"
                /\ http_error' = [status_code |-> 400, name |-> name,
                                  available |-> AvailableSources]
                /\ UNCHANGED <<sources_to_search, task>>
           ELSE /\ pc' = "gather"
                /\ sources_to_search' = sel
                /\ task' = [k \in Keys |->
                              IF \E i \in 1..Len(sel) : sel[i].key = k
                              THEN NewTask ELSE NoTask]
                /\ UNCHANGED http_error
    /\ UNCHANGED <<completed, results, all_videos, failed_sources, successful_sources, call, proxy, batch, issued>>

\* await asyncio.gather(...) returns, the results are merged and returned
GatherReturn ==
    /\ pc = "gather"
    /\ GatherReady
    /\ LET res == GatherResults
           m == Merge(res) IN
        /\ results' = res
        /\ all_videos' = m.all_videos
        /\ failed_sources' = m.failed_sources
        /\ successful_sources' = m.successful_sources
    /\ pc' = "done"
    /\ UNCHANGED <<specified_source_name, sources_to_search, task, completed, http_error,
                   call, proxy, batch, issued>>

\* no fetch_episodes_data / get_playback_info call is running
SearchEv == [ev |-> "search", n |-> 0]

IdleCall ==
    [op |-> "none", pc |-> "idle", source |-> "", video_id |-> "None", attempt |-> 0,
     log |-> <<>>, origin |-> "none", raised |-> "none", groups |-> <<>>,
     entries |-> <<>>, vod_play_url |-> <<>>, parsed |-> FALSE, ret |-> <<>>, movie_title |-> "unknown",
     web_player_url |-> "none"]

\* no /proxy/ request is running
IdleProxy ==
    [pc |-> "idle", handler |-> "none", client_url |-> <<>>, query_string |-> <<>>,
     encoded_url |-> <<>>, decoded |-> FALSE, target |-> <<>>, gets |-> <<>>, origin |-> "none",
     lines |-> <<>>, rewritten |-> FALSE, status_code |-> 0, detail |-> "none",
     content |-> <<>>, origin_status |-> 0, origin_headers |-> <<>>, headers |-> <<>>,
     media_type |-> <<>>, raised |-> "none"]

\* no call of fetch_video_details yet.  'details' is the dict it returns, as
\* a function from its keys
IdleBatch ==
    [pc |-> "idle", video_ids |-> <<>>, requests |-> <<>>, reply |-> "none",
     list |-> <<>>, details |-> <<>>, raised |-> "none"]

SearchInit ==
    /\ pc = "idle"
    /\ specified_source_name = NoName
    /\ sources_to_search = <<>>
    /\ task = [k \in Keys |-> NoTask]
    /\ completed = <<>>
    /\ results = <<>>
    /\ all_videos = <<>>
    /\ failed_sources = <<>>
    /\ successful_sources = 0
    /\ http_error = NoError

Init == SearchInit /\ call = IdleCall /\ proxy = IdleProxy /\ batch = IdleBatch /\ issued = <<>>

Next ==
    \/ SearchRequest
    \/ \E k \in Keys : TaskStart(k)
    \/ \E k \in Keys : TaskStartFails(k)
    \/ \E k \in Keys : TaskGet(k)
    \/ \E k \in Keys : TaskResponse(k)
    \/ \E k \in Keys : TaskDetailResponse(k)
    \/ GatherReturn

Spec == Init /\ [][Next]_vars

(***************************************************************************)
(* Properties of the search                                                *)
(***************************************************************************)
Gets(k) == Cardinality({i \in 1..Len(task[k].log) : task[k].log[i].ev = "get"})

\* the GETs and sleeps of the retry loop, without the detail request
SearchLog(k) == SelectSeq(task[k].log, LAMBDA e : e.ev # "detail")

\* the task ended with the list built from a 200 response
Healthy(k) ==
    task[k].pc = "done" /\ task[k].raised = "none" /\ task[k].ret.kind = "list"

\* every one of the max_retries attempts of the task ended in a retried error
FailedEveryAttempt(k) ==
    /\ task[k].pc = "done"
    /\ Gets(k) = max_retries
    /\ task[k].raised \in {"HTTPStatusError", "ConnectError"}

KeyAt(i) == sources_to_search[i].key

RECURSIVE Offset(_)
Offset(i) == IF i = 1 THEN 0 ELSE Offset(i - 1) + Len(task[KeyAt(i - 1)].ret.val)

\* C1: when exactly one selected source fails on every attempt and every
\* other one succeeds (at least one of them with hits), the search returns
\* the hits of the healthy sources and reports exactly one failure entry,
\* which names the failing source.
C1_OneFailureEntry ==
    \A f \in Selected :
        (/\ pc = "done"
         /\ FailedEveryAttempt(f)
         /\ \A k \in Selected \ {f} : Healthy(k)
         /\ \E k \in Selected \ {f} : task[k].ret.val # <<>>)
        => /\ \A i \in 1..Len(sources_to_search) : \A j \in 1..Len(task[KeyAt(i)].ret.val) :
                  all_videos[Offset(i) + j] = task[KeyAt(i)].ret.val[j]
           /\ Len(failed_sources) = 1
           /\ failed_sources[1].source_name = SourceOf(f).name

\* C2: when every selected source succeeds, the returned list is the
\* concatenation of the per-source lists in enumeration order, whatever the
\* completion order; every hit carries its source's key, and there is one
\* hit per item each origin listed (none dropped, none merged across sources).
C2_MergeInEnumerationOrder ==
    (pc = "done" /\ \A k \in Selected : Healthy(k))
    => /\ Len(all_videos) = Offset(Len(sources_to_search) + 1)
       /\ \A i \in 1..Len(sources_to_search) :
            /\ Len(task[KeyAt(i)].ret.val) = Len(task[KeyAt(i)].origin.body.list)
            /\ \A j \in 1..Len(task[KeyAt(i)].ret.val) :
                 /\ all_videos[Offset(i) + j] = task[KeyAt(i)].ret.val[j]
                 /\ all_videos[Offset(i) + j].source_key = KeyAt(i)
                 /\ all_videos[Offset(i) + j].video_id = task[KeyAt(i)].origin.body.list[j].vod_id

\* both sources succeed with the same film, the second finishing first
C2_Witness ==
    /\ pc = "done"
    /\ Len(sources_to_search) = 2
    /\ \A k \in Selected : Healthy(k) /\ task[k].ret.val # <<>>
    /\ completed = <<KeyAt(2), KeyAt(1)>>
    /\ Len(all_videos) >= 2
    /\ all_videos[1].video_id = all_videos[Len(task[KeyAt(1)].ret.val) + 1].video_id

TaskStep(k) ==
    TaskStart(k) \/ TaskStartFails(k) \/ TaskGet(k) \/ TaskResponse(k) \/ TaskDetailResponse(k)

\* C3: the endpoint returns only once every task has finished; a step in
\* which one task ends (in a failure or otherwise) changes no other task, and
\* while the endpoint waits every unfinished task can still take its next step.
C3_AllTasksRunToCompletion ==
    [][ /\ pc' = "done" => \A k \in Selected' : task'[k].pc = "done"
        /\ \A k \in Keys :
             (task[k].pc # "done" /\ task'[k].pc = "done")
             => \A j \in Keys \ {k} : task'[j] = task[j]
        /\ \A j \in Selected :
             (pc = "gather" /\ task[j].pc # "done") => ENABLED TaskStep(j)
      ]_vars

\* the first task ended in an exception, the second went on through all
\* its attempts and its hits were returned
C3_Witness ==
    /\ pc = "done"
    /\ Len(completed) = 2
    /\ task[completed[1]].ret.kind = "exc"
    /\ Gets(completed[2]) = max_retries
    /\ Healthy(completed[2])
    /\ all_videos # <<>>

UnknownName ==
    /\ Truthy(specified_source_name)
    /\ \A i \in 1..Len(Registry) : Registry[i].name # specified_source_name

\* C4: a request that names a source no registry entry has ends in the
\* "source not found" error (400) that lists the names of all sources, and no
\* task exists and no outbound request is issued, before or after the error.
C4_UnknownSourceFailsFast ==
    (pc # "idle" /\ UnknownName)
    => /\ pc = "raised"
       /\ http_error.status_code = 400
       /\ Len(http_error.available) = Len(Registry)
       /\ \A i \in 1..Len(Registry) : http_error.available[i] = Registry[i].name
       /\ \A k \in Keys : task[k].pc = "none" /\ task[k].log = <<>>
       /\ all_videos = <<>>

C4_Witness == pc = "raised" /\ specified_source_name = "X" /\ http_error.status_code = 400

\* C5: a task whose attempt ends in a connect timeout, a connect failure or
\* an HTTP status error gives up only after the third attempt.
C5_RetriesEveryTransientError ==
    \A k \in Keys :
        (task[k].pc = "done"
         /\ task[k].raised \in {"ConnectTimeout", "ConnectError", "HTTPStatusError"})
        => Gets(k) = max_retries

\* C6: a task issues at most 3 search requests; its log starts with a
\* request, a sleep follows failed attempt k (k = 0, 1) only, lasts 1s after
\* attempt 0 and 2s after attempt 1, and is followed by the next request;
\* nothing follows the request of the final attempt.
C6_BackoffSchedule ==
    \A k \in Keys :
        LET l == SearchLog(k) IN
        /\ Gets(k) <= 3
        /\ l # <<>> => l[1] = GetEv(0)
        /\ \A i \in 1..Len(l) :
             /\ l[i].ev = "sleep"
                => /\ i > 1
                   /\ l[i - 1].ev = "get"
                   /\ l[i - 1].n \in {0, 1}
                   /\ l[i].n = (IF l[i - 1].n = 0 THEN 1 ELSE 2)
                   /\ i < Len(l) => l[i + 1] = GetEv(l[i - 1].n + 1)
                   /\ i = Len(l) => task[k].pc = "request"
             /\ (l[i].ev = "get" /\ i < Len(l)) => l[i + 1].ev = "sleep"
             /\ (l[i].ev = "get" /\ l[i].n >= 2) => i = Len(l)

\* three failed attempts: get, 1s, get, 2s, get, and the task has given up
C6_Witness ==
    \E k \in Keys :
        /\ task[k].pc = "done"
        /\ task[k].raised = "HTTPStatusError"
        /\ SearchLog(k) = <<GetEv(0), SleepEv(1), GetEv(1), SleepEv(2), GetEv(2)>>

\* C7: an attempt that ends in a JSON decode failure or in a request error
\* that is not retried (here a read timeout) ends the search: the request of
\* that attempt is the last entry of the log (no sleep, no further request),
\* the task has returned the empty list and raised nothing.
C7_NoRetryOnDecodeOrRequestError ==
    \A k \in Keys :
        task[k].raised \in {"JSONDecodeError", "ReadTimeout"}
        => /\ task[k].pc = "done"
           /\ task[k].ret = Returned(<<>>)
           /\ task[k].log # <<>>
           /\ task[k].log[Len(task[k].log)] = GetEv(task[k].attempt)
           /\ Gets(k) = task[k].attempt + 1

\* a decode failure on the second attempt, and one read timeout
C7_Witness ==
    /\ \E k \in Keys :
        /\ task[k].raised = "JSONDecodeError"
        /\ task[k].log = <<GetEv(0), SleepEv(1), GetEv(1)>>
    /\ \E k \in Keys : task[k].raised = "ReadTimeout" /\ task[k].pc = "done"

Untagged(videos) ==
    [i \in 1..Len(videos) |-> [video_id |-> videos[i].video_id, detail |-> videos[i].detail]]

\* C9: two searches whose origin finally answers 200 with the same payload
\* (and the same detail answer) return the same hits, however many failed
\* attempts came before; no hit occurs twice and the list is no longer than
\* the origin's.
C9_RetryIdempotence ==
    \A k1, k2 \in Keys :
        (/\ task[k1].pc = "done" /\ task[k2].pc = "done"
         /\ task[k1].origin.status = 200 /\ task[k2].origin.status = 200
         /\ task[k1].origin.body = task[k2].origin.body
         /\ task[k1].detail_info = task[k2].detail_info)
        => /\ task[k1].ret.kind = "list"
           /\ Untagged(task[k1].ret.val) = Untagged(task[k2].ret.val)
           /\ Len(task[k1].ret.val) <= Len(task[k1].origin.body.list)
           /\ \A i, j \in 1..Len(task[k1].ret.val) :
                task[k1].ret.val[i] = task[k1].ret.val[j] => i = j

\* one source succeeds at once, the other after two failed attempts, with
\* the same non-empty payload
C9_Witness ==
    \E k1, k2 \in Keys :
        /\ Healthy(k1) /\ Healthy(k2)
        /\ Gets(k1) = 1 /\ Gets(k2) = max_retries
        /\ task[k1].origin.body = task[k2].origin.body
        /\ task[k1].detail_info = task[k2].detail_info
        /\ Len(task[k1].ret.val) >= 2
        /\ Untagged(task[k1].ret.val) = Untagged(task[k2].ret.val)

(***************************************************************************)
(* Python str operations on sequences of characters                        *)
(***************************************************************************)
RECURSIVE FindFrom(_, _, _)
FindFrom(s, sub, i) ==
    IF i + Len(sub) - 1 > Len(s) THEN 0
    ELSE IF SubSeq(s, i, i + Len(sub) - 1) = sub THEN i
    ELSE FindFrom(s, sub, i + 1)

\* s.find(sub) + 1: the first index sub starts at, 0 if there is none
Find(s, sub) == FindFrom(s, sub, 1)

\* sub in s
Contains(s, sub) == Find(s, sub) # 0

StartsWith(s, pre) == Len(pre) <= Len(s) /\ SubSeq(s, 1, Len(pre)) = pre

EndsWith(s, suf) == Len(suf) <= Len(s) /\ SubSeq(s, Len(s) - Len(suf) + 1, Len(s)) = suf

\* s.split(sep): left to right, without overlaps
RECURSIVE Split(_, _)
Split(s, sep) ==
    LET i == Find(s, sep) IN
    IF i = 0 THEN <<s>>
    ELSE <<SubSeq(s, 1, i - 1)>> \o Split(SubSeq(s, i + Len(sep), Len(s)), sep)

\* s.split(sep, 1)
SplitOnce(s, sep) ==
    LET i == Find(s, sep) IN
    IF i = 0 THEN <<s>>
    ELSE <<SubSeq(s, 1, i - 1), SubSeq(s, i + Len(sep), Len(s))>>

Whitespace == {" ", "\t", "\n", "\r"}

RECURSIVE LStrip(_)
LStrip(s) == IF s # <<>> /\ Head(s) \in Whitespace THEN LStrip(Tail(s)) ELSE s

RECURSIVE RStrip(_)
RStrip(s) ==
    IF s # <<>> /\ s[Len(s)] \in Whitespace THEN RStrip(SubSeq(s, 1, Len(s) - 1)) ELSE s

\* s.strip()
Strip(s) == RStrip(LStrip(s))

RECURSIVE Join(_, _)
Join(parts, sep) ==
    IF parts = <<>> THEN <<>>
    ELSE IF Len(parts) = 1 THEN parts[1]
    ELSE parts[1] \o sep \o Join(Tail(parts), sep)

HTTP == <<"h", "t", "t", "p", ":", "/", "/">>
HTTPS == <<"h", "t", "t", "p", "s", ":", "/", "/">>
M3U8 == <<".", "m", "3", "u", "8">>
DOLLAR == <<"$">>
HASH == <<"#">>
GROUPSEP == <<"$", "$">>

(***************************************************************************)
(* The play-list extraction of fetch_episodes_data (lines 170-202)         *)
(***************************************************************************)
\* lines 171-182: the first '$$' group that contains '.m3u8', else the
\* whole string
\* a variant that keeps looking and ends on the last such group
RECURSIVE LastGroupWith(_, _)
LastGroupWith(groups, sub) ==
    IF groups = <<>> THEN <<>>
    ELSE LET later == LastGroupWith(Tail(groups), sub) IN
         IF later # <<>> THEN later
         ELSE IF Contains(Head(groups), sub) THEN Head(groups)
         ELSE <<>>

RECURSIVE FirstGroupWith(_, _)
FirstGroupWith(groups, sub) ==
    IF groups = <<>> THEN <<>>
    ELSE IF Contains(Head(groups), sub) THEN Head(groups)
    ELSE FirstGroupWith(Tail(groups), sub)

SelectGroup(vod_play_url) ==
    LET m3u8_group == FirstGroupWith(Split(vod_play_url, GROUPSEP), M3U8) IN
    IF m3u8_group = <<>> THEN vod_play_url ELSE m3u8_group

\* a variant of the URL test that looks for '.m3u8' anywhere in the URL
AcceptUrlContains(episode_url) ==
    /\ Contains(episode_url, M3U8)
    /\ StartsWith(episode_url, HTTP) \/ StartsWith(episode_url, HTTPS)

\* line 194
AcceptUrl(episode_url) ==
    /\ EndsWith(episode_url, M3U8)
    /\ StartsWith(episode_url, HTTP) \/ StartsWith(episode_url, HTTPS)

\* lines 187-199: the episodes one entry contributes (none or one)
ParseEpisode(raw, source) ==
    LET episode == Strip(raw) IN
    IF Contains(episode, DOLLAR) /\ Contains(episode, M3U8)
    THEN LET parts == SplitOnce(episode, DOLLAR) IN
         IF Len(parts) = 2
         THEN LET episode_name == Strip(parts[1])
                  episode_url == Strip(parts[2]) IN
              IF AcceptUrl(episode_url)
              THEN <<[title |-> episode_name, url |-> episode_url, source |-> source]>>
              ELSE <<>>
         ELSE <<>>
    ELSE <<>>

RECURSIVE ParseEpisodes(_, _)
ParseEpisodes(episodes, source) ==
    IF episodes = <<>> THEN <<>>
    ELSE ParseEpisode(Head(episodes), source) \o ParseEpisodes(Tail(episodes), source)

ExtractEpisodes(vod_play_url, source) ==
    ParseEpisodes(Split(SelectGroup(vod_play_url), HASH), source)

(***************************************************************************)
(* What an origin can put into vod_play_url                                *)
(***************************************************************************)
\* "E1$http://a/1.m3u8"
EntryPlain ==
    <<"E", "1", "$", "h", "t", "t", "p", ":", "/", "/", "a", "/", "1", ".", "m", "3", "u", "8">>
\* " E2$https://a/2.m3u8 ": blanks around the entry
EntryPadded ==
    <<" ", "E", "2", "$", "h", "t", "t", "p", "s", ":", "/", "/", "a", "/", "2", ".", "m", "3", "u", "8", " ">>
\* "E3$http://a/3.mp4": wrong extension
EntryMp4 ==
    <<"E", "3", "$", "h", "t", "t", "p", ":", "/", "/", "a", "/", "3", ".", "m", "p", "4">>
\* "http://a/4.m3u8": no '$'
EntryNoDollar ==
    <<"h", "t", "t", "p", ":", "/", "/", "a", "/", "4", ".", "m", "3", "u", "8">>
\* "E5$/a/5.m3u8": the URL is not absolute
EntryRelative ==
    <<"E", "5", "$", "/", "a", "/", "5", ".", "m", "3", "u", "8">>
\* "E6$http://a/6.m3u8?t": '.m3u8' is not the end of the URL
EntryQuery ==
    <<"E", "6", "$", "h", "t", "t", "p", ":", "/", "/", "a", "/", "6", ".", "m", "3", "u", "8", "?", "t">>
\* "": an empty entry, as a trailing '#' leaves
EntryEmpty == <<>>

EntryTexts ==
    {EntryPlain, EntryPadded, EntryMp4, EntryNoDollar, EntryRelative, EntryQuery, EntryEmpty}

\* the play groups of at most MaxEntries entries
PlayGroups == UNION {[1..n -> EntryTexts] : n \in 0..MaxEntries}

\* "dplayer$$": an origin that names a first group without manifest links
OtherGroup ==
    <<"d", "p", "l", "a", "y", "e", "r", "$", "$">>

\* "L1$http://b/9.m3u8": the only entry of a further group of manifest links
EntryLater ==
    <<"L", "1", "$", "h", "t", "t", "p", ":", "/", "/", "b", "/", "9", ".", "m", "3", "u", "8">>

\* "$$L1$http://b/9.m3u8": an origin that offers that group after the others
LaterGroup == GROUPSEP \o EntryLater

\* vod_play_url: the entries joined by '#', after the other group if any and
\* before the later group if any
PlayUrl(other, entries, later) ==
    (IF other THEN OtherGroup ELSE <<>>)
    \o Join(entries, HASH)
    \o (IF later THEN LaterGroup ELSE <<>>)

\* the play groups the origin wrote into vod_play_url, each as its entries
SentGroups(other, entries, later) ==
    (IF other THEN <<<<SubSeq(OtherGroup, 1, Len(OtherGroup) - Len(GROUPSEP))>>>> ELSE <<>>)
    \o <<entries>>
    \o (IF later THEN <<<<EntryLater>>>> ELSE <<>>)

(***************************************************************************)
(* fetch_episodes_data and get_playback_info_endpoint: one call at a time  *)
(***************************************************************************)
\* what the origin does with one detail GET; 'ok' carries the play-list
\* (fetch_episodes_data) or stands for a record with a vod_name (playback)
DetailKinds == {"ConnectTimeout", "ConnectError", "status", "bad_json", "no_list", "empty_list"}

DetailReplies ==
    {[kind |-> d, other |-> FALSE, entries |-> <<>>, later |-> FALSE] : d \in DetailKinds}
    \cup {[kind |-> "ok", other |-> o, entries |-> g, later |-> l] :
            o \in BOOLEAN, g \in PlayGroups, l \in BOOLEAN}

PlaybackReplies ==
    {[kind |-> d, other |-> FALSE, entries |-> <<>>, later |-> FALSE] :
        d \in DetailKinds \cup {"ok"}}

\* the exception a reply makes the body of the try raise ("none": no exception)
EpisodeRaises(kind) ==
    CASE kind \in {"ConnectTimeout", "ConnectError"} -> kind
      [] kind = "status"                             -> "HTTPStatusError"
      [] kind = "bad_json"                           -> "JSONDecodeError"
      [] kind \in {"no_list", "empty_list"}          -> "ValueError"
      [] OTHER                                       -> "none"

\* in get_playback_info a missing or empty list raises nothing (line 627)
PlaybackRaises(kind) ==
    IF kind \in {"no_list", "empty_list"} THEN "none" ELSE EpisodeRaises(kind)

\* the except clauses of both loops, in order; each of them backs off
DetailExcepts == <<"ConnectTimeout", "HTTPStatusError", "Exception">>

Known(source) == \E i \in 1..Len(Registry) : Registry[i].name = source

\* the next iteration of 'for attempt in range(max)', or the end of the loop
LoopOn(c, max) ==
    IF c.attempt + 1 < max
    THEN [c EXCEPT !.pc = "request", !.attempt = @ + 1]
    ELSE [c EXCEPT !.pc = "done"]

\* lines 204-226: every clause sleeps 2 ** attempt while an attempt is left
\* and returns [] on the last one
EpisodeExcept(c, exc) ==
    IF Catches(DetailExcepts, exc) \in Range(DetailExcepts) /\ c.attempt < ep_max_retries - 1
    THEN LoopOn([c EXCEPT !.raised = exc, !.log = Append(@, SleepEv(Pow2(c.attempt)))],
                ep_max_retries)
    ELSE [c EXCEPT !.pc = "done", !.raised = exc, !.ret = <<>>]

\* lines 630-649: every clause sleeps 2 ** attempt while an attempt is left;
\* on the last one the loop ends and the default title stays
PlaybackExcept(c, exc) ==
    IF Catches(DetailExcepts, exc) \in Range(DetailExcepts) /\ c.attempt < pb_max_retries - 1
    THEN LoopOn([c EXCEPT !.raised = exc, !.log = Append(@, SleepEv(Pow2(c.attempt)))],
                pb_max_retries)
    ELSE LoopOn([c EXCEPT !.raised = exc], pb_max_retries)

\* fetch_episodes_data(movie_title, source, original_id): an unknown source
\* raises ValueError into the outer except (return []); without original_id
\* the search GET of lines 128-130 is issued first
EpisodesCall ==
    /\ call.op = "none"
    /\ \E source \in {"A", "X"}, original_id \in {"None", "7"} :
        call' =
            IF ~Known(source)
            THEN [IdleCall EXCEPT !.op = "episodes", !.source = source, !.pc = "done",
                                  !.raised = "ValueError"]
            ELSE IF original_id = "None"
            THEN [IdleCall EXCEPT !.op = "episodes", !.source = source,
                                  !.pc = "search_await", !.log = <<SearchEv>>]
            ELSE [IdleCall EXCEPT !.op = "episodes", !.source = source, !.pc = "request",
                                  !.video_id = original_id]
    /\ UNCHANGED <<search_vars, proxy, batch, issued>>

\* lines 130-141: the search answers; anything but a non-empty list ends
\* the call in the outer except with []
EpisodesSearchResponse ==
    /\ call.op = "episodes" /\ call.pc = "search_await"
    /\ \E kind \in DetailKinds \cup {"ok"} :
        call' =
            IF kind = "ok"
            THEN [call EXCEPT !.pc = "request", !.video_id = IdOf(1)]
            ELSE [call EXCEPT !.pc = "done", !.raised = EpisodeRaises(kind), !.ret = <<>>]
    /\ UNCHANGED <<search_vars, proxy, batch, issued>>

\* client.get(detail_url) of the current attempt, in either loop
DetailGet ==
    /\ call.op \in {"episodes", "playback"} /\ call.pc = "request"
    /\ call' = [call EXCEPT !.pc = "await", !.origin = "none", !.raised = "none",
                            !.log = Append(@, GetEv(call.attempt))]
    /\ UNCHANGED <<search_vars, proxy, batch, issued>>

\* lines 153-226: the detail GET of fetch_episodes_data ends
EpisodesDetailResponse ==
    /\ call.op = "episodes" /\ call.pc = "await"
    /\ \E r \in DetailReplies :
        LET c == [call EXCEPT !.origin = r.kind]
            url == PlayUrl(r.other, r.entries, r.later) IN
        call' =
            IF EpisodeRaises(r.kind) # "none" THEN EpisodeExcept(c, EpisodeRaises(r.kind))
            ELSE IF url = <<>>
            THEN [c EXCEPT !.pc = "done", !.ret = <<>>]
            ELSE [c EXCEPT !.pc = "done", !.groups = SentGroups(r.other, r.entries, r.later),
                           !.vod_play_url = url,
                           !.entries = Split(SelectGroup(url), HASH),
                           !.parsed = TRUE, !.ret = ExtractEpisodes(url, c.source)]
    /\ UNCHANGED <<search_vars, proxy, batch, issued>>

\* get_playback_info_endpoint: an unknown source raises ValueError into the
\* outer except, which answers with the default title
PlaybackCall ==
    /\ call.op = "none"
    /\ \E source \in {"A", "X"} :
        call' =
            IF ~Known(source)
            THEN [IdleCall EXCEPT !.op = "playback", !.source = source, !.pc = "done",
                                  !.raised = "ValueError", !.video_id = "7",
                                  !.web_player_url = "fallback"]
            ELSE [IdleCall EXCEPT !.op = "playback", !.source = source, !.pc = "request",
                                  !.video_id = "7"]
    /\ UNCHANGED <<search_vars, proxy, batch, issued>>

\* lines 651-667: after the loop the player URL is built and returned
PlayerUrl(c) == IF c.pc = "done" THEN [c EXCEPT !.web_player_url = "player"] ELSE c

\* lines 618-649: the detail GET of get_playback_info ends.  A record ends
\* the loop (break); a missing or empty list only logs a warning, so the loop
\* goes on without a sleep
PlaybackDetailResponse ==
    /\ call.op = "playback" /\ call.pc = "await"
    /\ \E r \in PlaybackReplies :
        LET c == [call EXCEPT !.origin = r.kind] IN
        call' = PlayerUrl(
            IF PlaybackRaises(r.kind) # "none" THEN PlaybackExcept(c, PlaybackRaises(r.kind))
            ELSE IF r.kind = "ok"
            THEN [c EXCEPT !.pc = "done", !.movie_title = "vod_name"]
            ELSE LoopOn(c, pb_max_retries))
    /\ UNCHANGED <<search_vars, proxy, batch, issued>>

DetailInit == SearchInit /\ call = IdleCall /\ proxy = IdleProxy /\ batch = IdleBatch /\ issued = <<>>

DetailNext ==
    \/ EpisodesCall
    \/ EpisodesSearchResponse
    \/ DetailGet
    \/ EpisodesDetailResponse
    \/ PlaybackCall
    \/ PlaybackDetailResponse

SpecDetail == DetailInit /\ [][DetailNext]_vars

(***************************************************************************)
(* Properties of the detail loops and of the play-list extraction          *)
(***************************************************************************)
Malformed == {"bad_json", "no_list", "empty_list"}

\* C8: in the detail fetch of fetch_episodes_data and of get_playback_info a
\* malformed response (invalid JSON, missing or empty list) ends the call:
\* the GET that was answered is the last entry of the log.
C8_MalformedNeverRetried ==
    call.origin \in Malformed
    => /\ call.pc = "done"
       /\ call.log[Len(call.log)] = GetEv(call.attempt)

\* the entry, trimmed, has a '$', and what follows its first '$', trimmed,
\* ends in '.m3u8' and begins with 'http://' or 'https://'
UrlPortion(entry) ==
    LET e == Strip(entry)
        i == CHOOSE i \in 1..Len(e) : e[i] = "$" /\ \A j \in 1..(i - 1) : e[j] # "$" IN
    Strip(SubSeq(e, i + 1, Len(e)))

TitlePortion(entry) ==
    LET e == Strip(entry)
        i == CHOOSE i \in 1..Len(e) : e[i] = "$" /\ \A j \in 1..(i - 1) : e[j] # "$" IN
    Strip(SubSeq(e, 1, i - 1))

AcceptedEntry(entry) ==
    /\ \E i \in 1..Len(entry) : entry[i] = "$"
    /\ LET u == UrlPortion(entry) IN
       /\ Len(u) >= 5
       /\ [i \in 1..5 |-> u[Len(u) - 5 + i]] = M3U8
       /\ \/ (Len(u) >= 7 /\ [i \in 1..7 |-> u[i]] = HTTP)
          \/ (Len(u) >= 8 /\ [i \in 1..8 |-> u[i]] = HTTPS)

\* C10: the episodes returned are exactly the accepted entries of the
\* group, in the order met, each with its trimmed title and URL; every other
\* entry is dropped, and a group without an accepted entry gives the empty
\* list.
C10_ExtractAcceptedEntriesInOrder ==
    (call.op = "episodes" /\ call.pc = "done" /\ call.parsed)
    => LET kept == SelectSeq(call.entries, AcceptedEntry) IN
       /\ Len(call.ret) = Len(kept)
       /\ \A i \in 1..Len(kept) :
            /\ call.ret[i].title = TitlePortion(kept[i])
            /\ call.ret[i].url = UrlPortion(kept[i])

\* EP1 and EP2 with a dropped entry between them; and a group of dropped
\* entries only
C10_Witness ==
    /\ call.op = "episodes" /\ call.pc = "done" /\ call.parsed
    /\ call.entries = <<EntryPlain, EntryMp4, EntryPadded>>
    /\ Len(call.ret) = 2
    /\ call.ret[1].title = <<"E", "1">>
    /\ call.ret[2].title = <<"E", "2">>

\* the entry has the characters '.m3u8' somewhere
HasM3u8(entry) ==
    \E i \in 1..Len(entry) : i + 4 <= Len(entry) /\ [j \in 1..5 |-> entry[i + j - 1]] = M3U8

\* the positions of the sent groups that have '.m3u8' in one of their entries
M3u8Groups(groups) ==
    {g \in 1..Len(groups) : \E e \in 1..Len(groups[g]) : HasM3u8(groups[g][e])}

\* C11: of the groups the origin separated by '$$', the entries taken are
\* those of the first group that has '.m3u8' in it, and no episode comes from
\* an entry that only another group has; when no group has '.m3u8' the
\* entries are those of the whole string and no episode is returned.
C11_FirstM3u8GroupOnly ==
    (call.op = "episodes" /\ call.pc = "done" /\ call.parsed)
    => LET hits == M3u8Groups(call.groups) IN
       IF hits = {}
       THEN /\ Join(call.entries, HASH) = call.vod_play_url
            /\ call.ret = <<>>
       ELSE LET first == CHOOSE g \in hits : \A h \in hits : g <= h IN
            /\ call.entries = call.groups[first]
            /\ \A g \in 1..Len(call.groups) : \A e \in 1..Len(call.groups[g]) :
                 LET entry == call.groups[g][e] IN
                 (g # first /\ AcceptedEntry(entry)
                    /\ \A f \in 1..Len(call.groups[first]) : call.groups[first][f] # entry)
                 => \A i \in 1..Len(call.ret) : call.ret[i].url # UrlPortion(entry)

\* two groups with accepted entries after a group without '.m3u8': the
\* episode of the first of the two is returned, the later one is not
C11_Witness ==
    /\ call.op = "episodes" /\ call.pc = "done" /\ call.parsed
    /\ call.groups = <<<<SubSeq(OtherGroup, 1, 7)>>, <<EntryMp4, EntryPlain>>, <<EntryLater>>>>
    /\ Len(call.ret) = 1
    /\ call.ret[1].url = UrlPortion(EntryPlain)

(***************************************************************************)
(* Characters, bytes and the codecs of the proxy: urllib.parse.quote and   *)
(* unquote, base64.urlsafe_b64encode and urlsafe_b64decode, bytes.decode   *)
(***************************************************************************)
\* the characters chr(32) .. chr(126), in order (chr(96) is spelled out: the
\* parser does not take it in a string)
Printable ==
    <<
      " ", "!", "\"", "#", "$", "%", "&", "'", "(", ")", "*", "+", ",", "-", ".", "/",
      "0", "1", "2", "3", "4", "5", "6", "7", "8", "9", ":", ";", "<", "=", ">", "?",
      "@", "A", "B", "C", "D", "E", "F", "G", "H", "I", "J", "K", "L", "M", "N", "O",
      "P", "Q", "R", "S", "T", "U", "V", "W", "X", "Y", "Z", "[", "\\", "]", "^", "_",
      "grave", "a", "b", "c", "d", "e", "f", "g", "h", "i", "j", "k", "l", "m", "n", "o",
      "p", "q", "r", "s", "t", "u", "v", "w", "x", "y", "z", "{", "|", "}", "~"
    >>

\* ord(c) of the characters the model writes
Ord ==
    [c \in Range(Printable) \cup {"\t", "\n", "\r"} |->
        CASE c = "\t" -> 9
          [] c = "\n" -> 10
          [] c = "\r" -> 13
          [] OTHER    -> 31 + CHOOSE i \in 1..Len(Printable) : Printable[i] = c]

\* what a decoder leaves for a code point the model has no character for
Unprintable == "?unprintable"

\* chr(n)
Chr(n) ==
    CASE n = 9  -> "\t"
      [] n = 10 -> "\n"
      [] n = 13 -> "\r"
      [] n \in 32..126 -> Printable[n - 31]
      [] OTHER -> Unprintable

\* s.encode(): the strings of the model are ASCII
Encode(s) == [i \in 1..Len(s) |-> Ord[s[i]]]

\* bytes.decode(): the text, or a UnicodeDecodeError.  A lead byte announces
\* n continuation bytes (-1: the byte cannot lead); the first of them is
\* held to the range that excludes overlong forms and surrogates
RECURSIVE Utf8Scan(_, _, _)
Utf8Scan(bytes, i, out) ==
    IF i > Len(bytes) THEN [ok |-> TRUE, text |-> out]
    ELSE LET b == bytes[i]
             n == CASE b < 128        -> 0
                    [] b \in 194..223 -> 1
                    [] b \in 224..239 -> 2
                    [] b \in 240..244 -> 3
                    [] OTHER          -> -1
             second == CASE b = 224 -> 160..191
                         [] b = 237 -> 128..159
                         [] b = 240 -> 144..191
                         [] b = 244 -> 128..143
                         [] OTHER   -> 128..191 IN
         IF n = -1 \/ i + n > Len(bytes) THEN [ok |-> FALSE, text |-> <<>>]
         ELSE IF n = 0 THEN Utf8Scan(bytes, i + 1, Append(out, Chr(b)))
         ELSE IF /\ bytes[i + 1] \in second
                 /\ \A j \in 2..n : bytes[i + j] \in 128..191
         THEN Utf8Scan(bytes, i + n + 1, Append(out, Unprintable))
         ELSE [ok |-> FALSE, text |-> <<>>]

Decode(bytes) == Utf8Scan(bytes, 1, <<>>)

HexDigits == <<"0", "1", "2", "3", "4", "5", "6", "7", "8", "9", "A", "B", "C", "D", "E", "F">>

\* int(c, 16) of a hex digit of either case, -1 for any other character
HexVal(c) ==
    LET lower == <<"0", "1", "2", "3", "4", "5", "6", "7", "8", "9",
                   "a", "b", "c", "d", "e", "f">>
        at == {i \in 1..16 : HexDigits[i] = c \/ lower[i] = c} IN
    IF at = {} THEN -1 ELSE (CHOOSE i \in at : TRUE) - 1

\* the characters quote() never escapes: letters, digits and '_.-~'
AlwaysSafe ==
    {Printable[i] : i \in (17..26) \cup (34..59) \cup (66..91)} \cup {"_", ".", "-", "~"}

\* urllib.parse.quote(s, safe='')
RECURSIVE Quote(_)
Quote(s) ==
    IF s = <<>> THEN <<>>
    ELSE LET c == Head(s)
             n == Ord[c] IN
         (IF c \in AlwaysSafe THEN <<c>>
          ELSE <<"%", HexDigits[(n \div 16) + 1], HexDigits[(n % 16) + 1]>>)
         \o Quote(Tail(s))

\* the bytes urllib.parse.unquote_to_bytes makes of s: '%XX' with two hex
\* digits is one byte, every other character stands for itself
RECURSIVE UnquoteBytes(_)
UnquoteBytes(s) ==
    IF s = <<>> THEN <<>>
    ELSE IF Head(s) = "%" /\ Len(s) >= 3 /\ HexVal(s[2]) # -1 /\ HexVal(s[3]) # -1
    THEN <<16 * HexVal(s[2]) + HexVal(s[3])>> \o UnquoteBytes(SubSeq(s, 4, Len(s)))
    ELSE <<Ord[Head(s)]>> \o UnquoteBytes(Tail(s))

\* urllib.parse.unquote(s): one character per byte below 128; a run of other
\* bytes is decoded with errors='replace', which leaves no ASCII character
Unquote(s) ==
    LET bytes == UnquoteBytes(s) IN
    [i \in 1..Len(bytes) |-> IF bytes[i] < 128 THEN Chr(bytes[i]) ELSE Unprintable]

\* the URL-safe base64 alphabet: A-Z a-z 0-9 - _
B64Alphabet ==
    [i \in 1..64 |->
        CASE i <= 26 -> Printable[33 + i]
          [] i <= 52 -> Printable[65 + i - 26]
          [] i <= 62 -> Printable[16 + i - 52]
          [] i = 63  -> "-"
          [] OTHER   -> "_"]

\* base64.urlsafe_b64encode(bytes).decode()
RECURSIVE B64Encode(_)
B64Encode(bytes) ==
    IF bytes = <<>> THEN <<>>
    ELSE LET b1 == bytes[1]
             b2 == IF Len(bytes) >= 2 THEN bytes[2] ELSE 0
             b3 == IF Len(bytes) >= 3 THEN bytes[3] ELSE 0
             c1 == B64Alphabet[(b1 \div 4) + 1]
             c2 == B64Alphabet[((b1 % 4) * 16 + (b2 \div 16)) + 1]
             c3 == B64Alphabet[((b2 % 16) * 4 + (b3 \div 64)) + 1]
             c4 == B64Alphabet[(b3 % 64) + 1] IN
         IF Len(bytes) = 1 THEN <<c1, c2, "=", "=">>
         ELSE IF Len(bytes) = 2 THEN <<c1, c2, c3, "=">>
         ELSE <<c1, c2, c3, c4>> \o B64Encode(SubSeq(bytes, 4, Len(bytes)))

\* a variant for the standard alphabet only: '-' and '_' are no digits
B64ValStandard(c) ==
    CASE c = "+" -> 62
      [] c = "/" -> 63
      [] \E i \in 1..62 : B64Alphabet[i] = c -> (CHOOSE i \in 1..62 : B64Alphabet[i] = c) - 1
      [] OTHER -> -1

\* the value of a base64 digit, -1 for a character that is none; after the
\* translation of urlsafe_b64decode both '-' and '+' are 62, '_' and '/' 63
B64Val(c) ==
    CASE c = "+" -> 62
      [] c = "/" -> 63
      [] \E i \in 1..64 : B64Alphabet[i] = c -> (CHOOSE i \in 1..64 : B64Alphabet[i] = c) - 1
      [] OTHER -> -1

\* binascii.a2b_base64 without strict mode: characters outside the alphabet
\* are skipped, enough padding after two or three digits of a group ends the
\* input, and an unfinished group at the end is an error
RECURSIVE B64Scan(_, _, _, _, _, _)
B64Scan(s, i, quad_pos, pads, leftchar, out) ==
    IF i > Len(s) THEN [ok |-> quad_pos = 0, bytes |-> out]
    ELSE IF s[i] = "="
    THEN IF quad_pos >= 2 /\ quad_pos + pads + 1 >= 4 THEN [ok |-> TRUE, bytes |-> out]
         ELSE B64Scan(s, i + 1, quad_pos, IF quad_pos >= 2 THEN pads + 1 ELSE pads,
                      leftchar, out)
    ELSE LET v == B64Val(s[i]) IN
         IF v = -1 THEN B64Scan(s, i + 1, quad_pos, pads, leftchar, out)
         ELSE CASE quad_pos = 0 -> B64Scan(s, i + 1, 1, 0, v, out)
                [] quad_pos = 1 ->
                    B64Scan(s, i + 1, 2, 0, v % 16, Append(out, leftchar * 4 + (v \div 16)))
                [] quad_pos = 2 ->
                    B64Scan(s, i + 1, 3, 0, v % 4, Append(out, leftchar * 16 + (v \div 4)))
                [] OTHER ->
                    B64Scan(s, i + 1, 0, 0, 0, Append(out, leftchar * 64 + v))

\* base64.urlsafe_b64decode(s).decode(): the text, or the exception of
\* either step
B64Decode(s) ==
    LET raw == B64Scan(s, 1, 0, 0, 0, <<>>) IN
    IF raw.ok THEN Decode(raw.bytes) ELSE [ok |-> FALSE, text |-> <<>>]

(***************************************************************************)
(* urllib.parse.urlparse, urlunparse and urljoin, for URLs without ';'     *)
(* parameters and without '[' ']' in the host                              *)
(***************************************************************************)
Letters == {Printable[i] : i \in (34..59) \cup (66..91)}

\* s.lower()
Lower(s) ==
    [i \in 1..Len(s) |->
        IF s[i] \in {Printable[c] : c \in 34..59} THEN Chr(Ord[s[i]] + 32) ELSE s[i]]

\* the first position of s that holds a character of set, Len(s) + 1 if none
RECURSIVE FirstOf(_, _, _)
FirstOf(s, set, i) ==
    IF i > Len(s) \/ s[i] \in set THEN i ELSE FirstOf(s, set, i + 1)

\* urlsplit, the scheme: a leading run of scheme characters before ':' is
\* the scheme, in lower case; without one the default is taken
SplitScheme(u, scheme) ==
    LET colon == FirstOf(u, {":"}, 1)
        scheme_chars == Letters \cup {Printable[i] : i \in 17..26} \cup {"+", "-", "."} IN
    IF /\ colon <= Len(u) /\ colon > 1
       /\ u[1] \in Letters
       /\ \A i \in 1..(colon - 1) : u[i] \in scheme_chars
    THEN [scheme |-> Lower(SubSeq(u, 1, colon - 1)), rest |-> SubSeq(u, colon + 1, Len(u))]
    ELSE [scheme |-> scheme, rest |-> u]

\* urlsplit, after the scheme: '//' opens the netloc, which ends at '/', '?'
\* or '#'; the fragment is cut at the first '#', the query at the first '?'
SplitRest(scheme, rest) ==
    LET delim == IF StartsWith(rest, <<"/", "/">>) THEN FirstOf(rest, {"/", "?", "#"}, 3) ELSE 1
        hash == FirstOf(rest, {"#"}, delim)
        qmark == FirstOf(SubSeq(rest, 1, hash - 1), {"?"}, delim) IN
    [scheme |-> scheme,
     netloc |-> SubSeq(rest, 3, delim - 1),
     path |-> SubSeq(rest, delim, qmark - 1),
     query |-> SubSeq(rest, qmark + 1, hash - 1),
     fragment |-> SubSeq(rest, hash + 1, Len(rest))]

\* urlparse(url, scheme): tabs and newlines are removed first
UrlParse(url, scheme) ==
    LET s == SplitScheme(SelectSeq(url, LAMBDA c : c \notin {"\t", "\r", "\n"}), scheme) IN
    SplitRest(s.scheme, s.rest)

UsesNetloc == {<<>>, <<"h", "t", "t", "p">>, <<"h", "t", "t", "p", "s">>, <<"f", "t", "p">>}

\* urlunparse(parts)
UrlUnparse(p) ==
    LET rooted ==
            IF p.netloc # <<>>
               \/ (p.scheme # <<>> /\ p.scheme \in UsesNetloc
                   /\ ~StartsWith(p.path, <<"/", "/">>))
            THEN <<"/", "/">> \o p.netloc
                 \o (IF p.path # <<>> /\ Head(p.path) # "/" THEN <<"/">> ELSE <<>>)
                 \o p.path
            ELSE p.path
        schemed == IF p.scheme # <<>> THEN p.scheme \o <<":">> \o rooted ELSE rooted
        queried == IF p.query # <<>> THEN schemed \o <<"?">> \o p.query ELSE schemed
    IN  IF p.fragment # <<>> THEN queried \o <<"#">> \o p.fragment ELSE queried

\* the loop over segments of urljoin: '..' drops the last resolved segment,
\* '.' is skipped
RECURSIVE ResolveDots(_, _)
ResolveDots(segments, resolved) ==
    IF segments = <<>> THEN resolved
    ELSE IF Head(segments) = <<".", ".">>
    THEN ResolveDots(Tail(segments),
                     IF resolved # <<>> THEN SubSeq(resolved, 1, Len(resolved) - 1)
                     ELSE resolved)
    ELSE IF Head(segments) = <<".">> THEN ResolveDots(Tail(segments), resolved)
    ELSE ResolveDots(Tail(segments), Append(resolved, Head(segments)))

\* urljoin, the path: the reference replaces the last segment of the base
\* path unless it begins with '/'; empty inner segments of the merged path
\* are dropped; the dot segments are resolved
JoinPath(base_all, path) ==
    LET all == (IF base_all[Len(base_all)] # <<>>
                THEN SubSeq(base_all, 1, Len(base_all) - 1)
                ELSE base_all) \o Split(path, <<"/">>)
        segments ==
            IF Head(path) = "/" THEN Split(path, <<"/">>)
            ELSE IF Len(all) <= 2 THEN all
            ELSE <<all[1]>>
                 \o SelectSeq(SubSeq(all, 2, Len(all) - 1), LAMBDA g : g # <<>>)
                 \o <<all[Len(all)]>>
        joined ==
            Join(ResolveDots(segments, <<>>)
                 \o (IF segments[Len(segments)] \in {<<".">>, <<".", ".">>}
                     THEN <<<<>>>> ELSE <<>>),
                 <<"/">>) IN
    IF joined = <<>> THEN <<"/">> ELSE joined

\* urljoin once base and url are parsed
JoinParsed(b, r, url) ==
    IF r.scheme # b.scheme \/ r.scheme \notin UsesNetloc THEN url
    ELSE IF r.netloc # <<>> THEN UrlUnparse(r)
    ELSE IF r.path = <<>>
    THEN UrlUnparse([r EXCEPT !.netloc = b.netloc, !.path = b.path,
                              !.query = IF r.query = <<>> THEN b.query ELSE r.query])
    ELSE UrlUnparse([r EXCEPT !.netloc = b.netloc,
                              !.path = JoinPath(Split(b.path, <<"/">>), r.path)])

\* urllib.parse.urljoin(base, url)
UrlJoin(base, url) ==
    IF base = <<>> THEN url
    ELSE IF url = <<>> THEN base
    ELSE JoinParsed(UrlParse(base, <<>>),
                    UrlParse(url, UrlParse(base, <<>>).scheme), url)

\* s.rsplit('/', 1)[0]
RSplitSlashHead(s) ==
    LET at == {i \in 1..Len(s) : s[i] = "/"} IN
    IF at = {} THEN s
    ELSE SubSeq(s, 1, (CHOOSE i \in at : \A j \in at : j <= i) - 1)

(***************************************************************************)
(* The two /proxy/ handlers: proxy_m3u8_url_encoded (route "/proxy/") and  *)
(* proxy_m3u8 (route "/proxy/{encoded_url:path}")                          *)
(***************************************************************************)
\* the longest manifest an origin answers with, in lines
MaxLines == 3

\* get_dynamic_mcp_base_url() without a request: "http://p"
configured_base_url ==
    <<"h", "t", "t", "p", ":", "/", "/", "p">>

\* "/proxy/"
ProxyPrefix ==
    <<"/", "p", "r", "o", "x", "y", "/">>

\* the texts a client encodes into a request
Url ==
     \* "https://o/s/i.m3u8"
    [plain |-> <<"h", "t", "t", "p", "s", ":", "/", "/", "o", "/", "s", "/", "i", ".",
          "m", "3", "u", "8">>,
     \* "http://o/v/i.m3u8?t=a/b": a query with '=' and '/' after the manifest name
     query |-> <<"h", "t", "t", "p", ":", "/", "/", "o", "/", "v", "/", "i", ".", "m",
          "3", "u", "8", "?", "t", "=", "a", "/", "b">>,
     \* "ftp://o/i.m3u8": absolute, another scheme
     ftp |-> <<"f", "t", "p", ":", "/", "/", "o", "/", "i", ".", "m", "3", "u", "8">>,
     \* "httpx://o/i.m3u8": begins with 'http', not with 'http://'
     httpx |-> <<"h", "t", "t", "p", "x", ":", "/", "/", "o", "/", "i", ".", "m", "3",
          "u", "8">>,
     \* "abc": three base64 digits without padding, no URL at all
     bad |-> <<"a", "b", "c">>]

Targets == {Url.plain, Url.query, Url.ftp, Url.httpx}

\* what a client can send as the query string or as the path after /proxy/:
\* each target percent-encoded, base64url-encoded, or as it is; a text that
\* is no base64; nothing
InboundTexts ==
    {Quote(u) : u \in Targets}
    \cup {B64Encode(Encode(u)) : u \in Targets}
    \cup Targets
    \cup {Url.bad, <<>>}

\* a variant of the test that is content with a leading 'http'
AbsoluteHttpLoose(url) == StartsWith(url, <<"h", "t", "t", "p">>)

\* lines 735, 833, 843
AbsoluteHttp(url) == StartsWith(url, HTTP) \/ StartsWith(url, HTTPS)

\* lines 700-728: the target of proxy_m3u8_url_encoded, <<>> for none.  A
\* query string with '=' in it is not looked at; request.url.path is '/proxy/'
\* on this route, with nothing after the prefix
QueryTarget(query_string) ==
    LET from_query ==
            IF query_string # <<>> /\ ~Contains(query_string, <<"=">>)
            THEN Unquote(query_string)
            ELSE <<>>
        path == ProxyPrefix
        path_part == SubSeq(path, 8, Len(path)) IN
    IF from_query # <<>> THEN from_query
    ELSE IF StartsWith(path, ProxyPrefix) /\ path_part # <<>> THEN Unquote(path_part)
    ELSE <<>>

\* a variant that goes to base64 at once
PathTargetBase64Only(encoded_url) == B64Decode(encoded_url)

\* lines 823-839: the target of proxy_m3u8; ok is FALSE when the base64
\* step raised
PathTarget(encoded_url) ==
    LET original_url == Unquote(encoded_url) IN
    IF original_url = <<>> \/ ~AbsoluteHttp(original_url)
    THEN B64Decode(encoded_url)
    ELSE [ok |-> TRUE, text |-> original_url]

\* lines 776-783: replace_relative_paths of proxy_m3u8_url_encoded
ReplaceQueryMode(target_url, matched) ==
    LET relative_path == Strip(matched) IN
    IF StartsWith(relative_path, HASH) \/ StartsWith(relative_path, <<"h", "t", "t", "p">>)
    THEN relative_path
    ELSE LET absolute_url == UrlJoin(target_url, relative_path)
             encoded_absolute_url == Quote(absolute_url) IN
         configured_base_url \o ProxyPrefix \o encoded_absolute_url

\* lines 886-899: replace_relative_paths of proxy_m3u8
ReplacePathMode(original_url, matched) ==
    LET base_url == RSplitSlashHead(original_url) \o <<"/">>
        path == Strip(matched) IN
    IF StartsWith(path, HASH) THEN path
    ELSE LET absolute_path == UrlJoin(base_url, path)
             encoded_absolute_path == B64Encode(Encode(absolute_path)) IN
         configured_base_url \o ProxyPrefix \o encoded_absolute_path

\* the replacement function of either handler
ReplaceRelativePaths(handler, url, matched) ==
    IF handler = "proxy_m3u8_url_encoded" THEN ReplaceQueryMode(url, matched)
    ELSE ReplacePathMode(url, matched)

\* a variant of the pattern without its lookahead: every run is a match
SubLineAll(handler, url, line) == ReplaceRelativePaths(handler, url, line)

\* what re.sub makes of one run between newlines under the pattern
\* r"^(?!https?://).*$" with re.MULTILINE: a run that begins with http:// or
\* https:// has no match; any other run, the empty one included, is one
\* match from its first to its last character
SubLine(handler, url, line) ==
    IF StartsWith(line, HTTP) \/ StartsWith(line, HTTPS) THEN line
    ELSE ReplaceRelativePaths(handler, url, line)

\* a substitution that passes over empty lines
RewriteSkippingBlank(handler, url, content) ==
    LET lines == SelectSeq(Split(content, <<"\n">>), LAMBDA l : l # <<>>) IN
    Join([i \in 1..Len(lines) |-> SubLine(handler, url, lines[i])], <<"\n">>)

\* line 785 and line 901: re.sub over the content; '^' also matches after
\* the last newline
Rewrite(handler, url, content) ==
    LET lines == Split(content, <<"\n">>) IN
    Join([i \in 1..Len(lines) |-> SubLine(handler, url, lines[i])], <<"\n">>)

\* Content-Type values
Ct ==
     \* "application/vnd.apple.mpegurl"
    [apple |-> <<"a", "p", "p", "l", "i", "c", "a", "t", "i", "o", "n", "/", "v", "n",
          "d", ".", "a", "p", "p", "l", "e", ".", "m", "p", "e", "g", "u", "r", "l">>,
     \* "application/x-mpegURL"
     mpegurl |-> <<"a", "p", "p", "l", "i", "c", "a", "t", "i", "o", "n", "/", "x", "-",
          "m", "p", "e", "g", "U", "R", "L">>,
     \* "audio/mpegurl"
     audio |-> <<"a", "u", "d", "i", "o", "/", "m", "p", "e", "g", "u", "r", "l">>,
     \* "video/mp2t"
     segment |-> <<"v", "i", "d", "e", "o", "/", "m", "p", "2", "t">>,
     \* "application/octet-stream": the default of lines 764 and 871
     octet |-> <<"a", "p", "p", "l", "i", "c", "a", "t", "i", "o", "n", "/", "o", "c", "t", "e", "t",
          "-", "s", "t", "r", "e", "a", "m">>,
     \* "text/plain; charset=utf-8": line 943
     plain |-> <<"t", "e", "x", "t", "/", "p", "l", "a", "i", "n", ";", " ", "c", "h", "a", "r", "s",
          "e", "t", "=", "u", "t", "f", "-", "8">>]

\* line 767
IsManifestQueryMode(content_type, target_url) ==
    Contains(Lower(content_type), <<"m", "3", "u", "8">>) \/ EndsWith(target_url, M3U8)

\* lines 875-880
IsManifestPathMode(content_type, original_url) ==
    \/ Contains(content_type, Ct.mpegurl)
    \/ Contains(content_type, Ct.audio)
    \/ Contains(content_type, Ct.apple)
    \/ EndsWith(original_url, M3U8)

IsManifest(handler, content_type, url) ==
    IF handler = "proxy_m3u8_url_encoded"
    THEN IsManifestQueryMode(content_type, url)
    ELSE IsManifestPathMode(content_type, url)

(***************************************************************************)
(* What an origin can answer a proxied GET with                            *)
(***************************************************************************)
\* the lines of a manifest
Line ==
     \* "#EXTM3U"
    [directive |-> <<"#", "E", "X", "T", "M", "3", "U">>,
     \* "#EXTINF:1,\r": a directive of a manifest with CRLF line ends
     directive_cr |-> <<"#", "E", "X", "T", "I", "N", "F", ":", "1", ",", "\r">>,
     \* "seg1.ts"
     relative |-> <<"s", "e", "g", "1", ".", "t", "s">>,
     \* "/v/seg2.ts"
     rooted |-> <<"/", "v", "/", "s", "e", "g", "2", ".", "t", "s">>,
     \* "https://c/s3.ts"
     https |-> <<"h", "t", "t", "p", "s", ":", "/", "/", "c", "/", "s", "3", ".", "t",
          "s">>,
     \* "http://c/s4.ts\r": an absolute reference of a manifest with CRLF line ends
     http_cr |-> <<"h", "t", "t", "p", ":", "/", "/", "c", "/", "s", "4", ".", "t", "s",
          "\r">>,
     \* "": a blank line, or what follows the last newline
     blank |-> <<>>,
     \* "httpseg.ts": a relative reference whose name begins with 'http'
     http_name |-> <<"h", "t", "t", "p", "s", "e", "g", ".", "t", "s">>,
     \* "?t=1": a reference that is a query only
     query_only |-> <<"?", "t", "=", "1">>]

LineTexts == {Line[f] : f \in DOMAIN Line}

\* the bodies of at most MaxLines lines, as their lines
Manifests == UNION {[1..n -> LineTexts] : n \in 1..MaxLines}

\* names and values of headers: as an origin writes them, and as lines
\* 800-802 and 920 write them
Hdr ==
    [\* Content-Type
     content_type |-> <<"C", "o", "n", "t", "e", "n", "t", "-", "T", "y", "p", "e">>,
     \* Content-Encoding
     content_encoding |-> <<"C", "o", "n", "t", "e", "n", "t", "-", "E", "n", "c", "o", "d", "i", "n", "g">>,
     \* content-length
     content_length |-> <<"c", "o", "n", "t", "e", "n", "t", "-", "l", "e", "n", "g", "t", "h">>,
     \* Transfer-Encoding
     transfer_encoding |-> <<"T", "r", "a", "n", "s", "f", "e", "r", "-", "E", "n", "c", "o", "d", "i", "n",
          "g">>,
     \* ETag
     etag |-> <<"E", "T", "a", "g">>,
     \* Access-Control-Allow-Origin
     allow_origin |-> <<"A", "c", "c", "e", "s", "s", "-", "C", "o", "n", "t", "r", "o", "l", "-", "A", "l",
          "l", "o", "w", "-", "O", "r", "i", "g", "i", "n">>,
     \* Access-Control-Allow-Methods
     allow_methods |-> <<"A", "c", "c", "e", "s", "s", "-", "C", "o", "n", "t", "r", "o", "l", "-", "A", "l",
          "l", "o", "w", "-", "M", "e", "t", "h", "o", "d", "s">>,
     \* Access-Control-Allow-Headers
     allow_headers |-> <<"A", "c", "c", "e", "s", "s", "-", "C", "o", "n", "t", "r", "o", "l", "-", "A", "l",
          "l", "o", "w", "-", "H", "e", "a", "d", "e", "r", "s">>,
     \* Cache-Control
     cache_control |-> <<"C", "a", "c", "h", "e", "-", "C", "o", "n", "t", "r", "o", "l">>,
     \* gzip
     gzip |-> <<"g", "z", "i", "p">>,
     \* 999
     length |-> <<"9", "9", "9">>,
     \* chunked
     chunked |-> <<"c", "h", "u", "n", "k", "e", "d">>,
     \* 'v1'
     tag |-> <<"\"", "v", "1", "\"">>,
     \* *
     star |-> <<"*">>,
     \* GET, POST, OPTIONS
     methods |-> <<"G", "E", "T", ",", " ", "P", "O", "S", "T", ",", " ", "O", "P", "T", "I", "O", "N",
          "S">>,
     \* public, max-age=3600
     max_age |-> <<"p", "u", "b", "l", "i", "c", ",", " ", "m", "a", "x", "-", "a", "g", "e", "=", "3",
          "6", "0", "0">>]

\* the headers of an origin next to its Content-Type: none, or the three
\* that describe the transfer together with one that describes the content
OriginHeaders ==
    {<<>>,
     <<[key |-> Hdr.content_encoding, value |-> Hdr.gzip],
       [key |-> Hdr.content_length, value |-> Hdr.length],
       [key |-> Hdr.transfer_encoding, value |-> Hdr.chunked],
       [key |-> Hdr.etag, value |-> Hdr.tag]>>}

\* the origin answers 200 with a body and headers, answers with an error
\* status, or the GET raises.  Every manifest is served as
\* 'application/vnd.apple.mpegurl' and every line as a media segment; one
\* reference is served under each Content-Type and with none, with and
\* without the other headers; one body is not UTF-8.
OriginReplies ==
    {[kind |-> "ok", status_code |-> 200, lines |-> m, utf8 |-> TRUE,
      headers |-> <<[key |-> Hdr.content_type, value |-> Ct.apple]>>] : m \in Manifests}
    \cup {[kind |-> "ok", status_code |-> 200, lines |-> <<l>>, utf8 |-> TRUE,
           headers |-> <<[key |-> Hdr.content_type, value |-> Ct.segment]>>] : l \in LineTexts}
    \cup {[kind |-> "ok", status_code |-> 200, lines |-> <<Line.relative>>, utf8 |-> TRUE,
           headers |-> h \o t] :
            h \in OriginHeaders,
            t \in {<<>>} \cup {<<[key |-> Hdr.content_type, value |-> c]>> :
                                  c \in {Ct.apple, Ct.mpegurl, Ct.audio, Ct.segment}}}
    \cup {[kind |-> "ok", status_code |-> 200, lines |-> <<<<"#", Unprintable>>>>,
           utf8 |-> FALSE, headers |-> <<[key |-> Hdr.content_type, value |-> Ct.apple]>>]}
    \cup {[kind |-> "HTTPStatusError", status_code |-> c, lines |-> <<Line.blank>>,
           utf8 |-> TRUE, headers |-> <<>>] : c \in {403, 404}}
    \cup {[kind |-> e, status_code |-> 0, lines |-> <<Line.blank>>, utf8 |-> TRUE,
           headers |-> <<>>] : e \in {"ConnectError", "ReadTimeout", "InvalidURL"}}

\* a response that ends the request before any GET
Reject(p, status_code, detail) ==
    [p EXCEPT !.pc = "done", !.status_code = status_code, !.detail = detail]

\* client.get(url) is issued
Fetch(p, url) ==
    [p EXCEPT !.pc = "await", !.decoded = TRUE, !.target = url, !.gets = Append(@, url)]

\* lines 700-758: proxy_m3u8_url_encoded up to the await of client.get
QueryModeAnswer(p, query_string) ==
    LET q == [p EXCEPT !.handler = "proxy_m3u8_url_encoded", !.query_string = query_string]
        target_url == QueryTarget(query_string) IN
    IF target_url = <<>> THEN Reject(q, 400, "Missing target URL")
    ELSE IF ~AbsoluteHttp(target_url)
    THEN Reject([q EXCEPT !.decoded = TRUE, !.target = target_url], 400, "Invalid URL format")
    ELSE Fetch(q, target_url)

\* lines 820-866: proxy_m3u8 up to the await of client.get
PathModeAnswer(p, encoded_url) ==
    LET q == [p EXCEPT !.handler = "proxy_m3u8", !.encoded_url = encoded_url]
        original_url == PathTarget(encoded_url) IN
    IF ~original_url.ok THEN Reject(q, 400, "Invalid encoded URL")
    ELSE IF ~AbsoluteHttp(original_url.text)
    THEN Reject([q EXCEPT !.decoded = TRUE, !.target = original_url.text],
                400, "Invalid URL format")
    ELSE Fetch(q, original_url.text)

\* a request to the route "/proxy/", which hands over the query string
QueryModeRequest ==
    /\ proxy.pc = "idle"
    /\ \E query_string \in InboundTexts : proxy' = QueryModeAnswer(proxy, query_string)
    /\ UNCHANGED <<search_vars, call, batch, issued>>

\* a request to the route "/proxy/{encoded_url:path}", which hands over a
\* non-empty rest of the path
PathModeRequest ==
    /\ proxy.pc = "idle"
    /\ \E encoded_url \in InboundTexts \ {<<>>} : proxy' = PathModeAnswer(proxy, encoded_url)
    /\ UNCHANGED <<search_vars, call, batch, issued>>

\* proxy_response.headers.items(): httpx gives the names in lower case
HeadersItems(headers) ==
    [i \in 1..Len(headers) |-> [key |-> Lower(headers[i].key), value |-> headers[i].value]]

\* proxy_response.headers.get(key, default)
HeaderGet(items, key, default) ==
    LET at == {i \in 1..Len(items) : items[i].key = Lower(key)} IN
    IF at = {} THEN default ELSE items[CHOOSE i \in at : \A j \in at : i <= j].value

\* a variant that lets transfer-encoding through
StrippedHeadersTwo == {Lower(Hdr.content_encoding), Lower(Hdr.content_length)}

\* lines 796 and 917
StrippedHeaders ==
    {Lower(Hdr.content_encoding), Lower(Hdr.content_length), Lower(Hdr.transfer_encoding)}

\* lines 793-804 and 913-920: the headers argument of the Response.  No name
\* the handlers add is in lower case, so none replaces a relayed entry
ResponseHeaders(handler, items, content_type) ==
    LET kept == SelectSeq(items, LAMBDA h : Lower(h.key) \notin StrippedHeaders) IN
    IF handler = "proxy_m3u8_url_encoded"
    THEN kept \o <<[key |-> Hdr.allow_origin, value |-> Hdr.star],
                   [key |-> Hdr.allow_methods, value |-> Hdr.methods],
                   [key |-> Hdr.allow_headers, value |-> Hdr.star]>>
              \o (IF content_type # <<>>
                  THEN <<[key |-> Hdr.content_type, value |-> content_type]>>
                  ELSE <<>>)
    ELSE Append(kept, [key |-> Hdr.cache_control, value |-> Hdr.max_age])

\* lines 763-810 and 871-931: the answer to a GET that succeeded.  The first
\* handler leaves a body that is not UTF-8 alone and passes the status on;
\* the second reads the text with replacement characters and passes
\* media_type next to the headers
Relay(p, r) ==
    LET query_mode == p.handler = "proxy_m3u8_url_encoded"
        items == HeadersItems(r.headers)
        content_type == HeaderGet(items, Hdr.content_type, Ct.octet)
        body == Join(r.lines, <<"\n">>)
        rewrite == IsManifest(p.handler, content_type, p.target) /\ (query_mode => r.utf8)
    IN [p EXCEPT !.status_code = IF query_mode THEN r.status_code ELSE 200,
                 !.rewritten = rewrite,
                 !.content = IF rewrite THEN Rewrite(p.handler, p.target, body) ELSE body,
                 !.headers = ResponseHeaders(p.handler, items,
                                             IF rewrite THEN Ct.apple ELSE content_type),
                 !.media_type = IF query_mode THEN <<>>
                                ELSE IF rewrite THEN Ct.apple ELSE content_type]

\* a variant of the second chain without its last clause
ProxyExceptsNarrow(handler) ==
    IF handler = "proxy_m3u8_url_encoded" THEN <<"Exception">>
    ELSE <<"HTTPStatusError", "RequestError">>

\* the except clauses around the GET: line 812, and lines 933, 945, 949
ProxyExcepts(handler) ==
    IF handler = "proxy_m3u8_url_encoded" THEN <<"Exception">>
    ELSE <<"HTTPStatusError", "RequestError", "Exception">>

\* lines 812-814 and 933-954: the answer to a GET that raised; an exception
\* that no clause catches leaves the handler.  "access denied" stands for
\* the message of line 938 about geo restriction and hotlink protection
ProxyExcept(p, exc, status_code) ==
    LET clause == Catches(ProxyExcepts(p.handler), exc) IN
    CASE clause = "uncaught" -> [p EXCEPT !.pc = "raised", !.raised = exc]
      [] clause = "HTTPStatusError" ->
            [p EXCEPT !.status_code = status_code,
                      !.detail = IF status_code = 403 THEN "access denied" ELSE "HTTP error",
                      !.headers = <<[key |-> Hdr.content_type, value |-> Ct.plain]>>]
      [] clause = "RequestError" -> [p EXCEPT !.status_code = 500, !.detail = "request failed"]
      [] OTHER ->
            [p EXCEPT !.status_code = 500,
                      !.detail = IF p.handler = "proxy_m3u8_url_encoded"
                                 THEN "Proxy error" ELSE "unknown error"]

\* lines 759-814 and 867-954: the GET ends and the handler answers.  An
\* error status raises HTTPStatusError in raise_for_status
OriginResponse ==
    /\ proxy.pc = "await"
    /\ \E r \in OriginReplies :
        LET p == [proxy EXCEPT !.pc = "done", !.origin = r.kind, !.lines = r.lines,
                               !.origin_status = r.status_code,
                               !.origin_headers = r.headers] IN
        proxy' = IF r.kind = "ok" THEN Relay(p, r) ELSE ProxyExcept(p, r.kind, r.status_code)
    /\ UNCHANGED <<search_vars, call, batch, issued>>

ProxyInit == SearchInit /\ call = IdleCall /\ proxy = IdleProxy /\ batch = IdleBatch /\ issued = <<>>

ProxyNext ==
    \/ QueryModeRequest
    \/ PathModeRequest
    \/ OriginResponse

SpecProxy == ProxyInit /\ [][ProxyNext]_vars

(***************************************************************************)
(* Clients that encode a URL of their choice the way each mode asks for    *)
(***************************************************************************)
\* the longest text after 'http://' or 'https://' a client asks for
MaxTail == 3

\* http and https URLs whose text after the scheme is made of characters that
\* the two encodings treat differently
ClientUrls ==
    {scheme \o t : scheme \in {HTTP, HTTPS},
                   t \in UNION {[1..n -> {"a", "/", "?", "=", "%", "+", " ", "~", "2", "F"}] :
                                n \in 0..MaxTail}}

\* the client puts quote(url, safe='') into the query string of /proxy/, as
\* line 782 encodes, or the base64url text of line 895 into the path
EncodedRequest ==
    /\ proxy.pc = "idle"
    /\ \E url \in ClientUrls :
        LET p == [proxy EXCEPT !.client_url = url] IN
        \/ proxy' = QueryModeAnswer(p, Quote(url))
        \/ proxy' = PathModeAnswer(p, B64Encode(Encode(url)))
    /\ UNCHANGED <<search_vars, call, batch, issued>>

SpecRoundTrip == ProxyInit /\ [][EncodedRequest]_vars

(***************************************************************************)
(* Properties of the proxy handlers                                        *)
(***************************************************************************)
\* the text begins with 'http://' or with 'https://'
IsHttpUrl(u) ==
    \/ Len(u) >= 7 /\ [i \in 1..7 |-> u[i]] = HTTP
    \/ Len(u) >= 8 /\ [i \in 1..8 |-> u[i]] = HTTPS

\* C12: in both proxy handlers every URL handed to client.get begins with
\* 'http://' or 'https://', and a request whose target does not is answered
\* 400 without any GET.
C12_NoFetchUnlessAbsolute ==
    /\ \A i \in 1..Len(proxy.gets) : IsHttpUrl(proxy.gets[i])
    /\ (proxy.pc # "idle" /\ ~IsHttpUrl(proxy.target))
       => /\ proxy.pc = "done"
          /\ proxy.status_code = 400
          /\ proxy.gets = <<>>

\* the base64url text of an ftp URL was decoded and refused
C12_Witness ==
    /\ proxy.handler = "proxy_m3u8"
    /\ proxy.encoded_url = B64Encode(Encode(Url.ftp))
    /\ proxy.target = Url.ftp
    /\ proxy.status_code = 400
    /\ proxy.gets = <<>>

\* the request was answered 400 and no GET was issued
Rejected400 == proxy.pc = "done" /\ proxy.status_code = 400 /\ proxy.gets = <<>>

\* C13: the inbound text is percent-decoded first and a result that begins
\* with http:// or https:// is the fetch target.  Only otherwise does
\* proxy_m3u8 go on to base64url: a text that does not decode is answered
\* 400, a decoded text that is no http(s) URL is answered 400, any other
\* decoded text is the fetch target.  proxy_m3u8_url_encoded has the first
\* step only (on a query string without '=') and answers 400 otherwise.
C13_OrderedDecodeFallback ==
    LET e == IF proxy.handler = "proxy_m3u8" THEN proxy.encoded_url ELSE proxy.query_string
        pct == Unquote(e)
        b64 == B64Decode(e) IN
    /\ proxy.handler = "proxy_m3u8"
       => IF IsHttpUrl(pct) THEN proxy.gets = <<pct>>
          ELSE IF ~b64.ok THEN Rejected400
          ELSE IF ~IsHttpUrl(b64.text) THEN Rejected400
          ELSE proxy.gets = <<b64.text>>
    /\ proxy.handler = "proxy_m3u8_url_encoded"
       => IF IsHttpUrl(pct) /\ \A i \in 1..Len(e) : e[i] # "="
          THEN proxy.gets = <<pct>>
          ELSE Rejected400

\* a base64url path: percent-decoding leaves it as it is, the second step
\* gives the target
C13_Witness ==
    /\ proxy.handler = "proxy_m3u8"
    /\ proxy.encoded_url = B64Encode(Encode(Url.query))
    /\ ~IsHttpUrl(Unquote(proxy.encoded_url))
    /\ proxy.gets = <<Url.query>>

\* C14: a client that encodes an http(s) URL u as the percent-encoded query
\* string of /proxy/, or as the base64url path after /proxy/, has exactly u
\* fetched.
C14_EncodeDecodeRoundTrip ==
    (proxy.pc # "idle" /\ proxy.client_url # <<>>)
    => /\ proxy.pc = "await"
       /\ proxy.gets = <<proxy.client_url>>

\* "https://?%2": the base64url text has a '_' in it and the URL a '%'
C14_Witness ==
    /\ proxy.handler = "proxy_m3u8"
    /\ proxy.client_url = HTTPS \o <<"?", "%", "2">>
    /\ \E i \in 1..Len(proxy.encoded_url) : proxy.encoded_url[i] = "_"
    /\ proxy.gets = <<proxy.client_url>>

\* the lines of the body the handler answered with
OutLines == Split(proxy.content, <<"\n">>)

\* the i-th line of the answer, <<"?">> past its end
OutLine(i) == IF i <= Len(OutLines) THEN OutLines[i] ELSE <<"?">>

IsDirective(line) == line # <<>> /\ line[1] = "#"

\* C15: in a rewritten manifest every line that begins with '#' is in the
\* answer as the origin sent it, trailing blanks and carriage return included.
C15_DirectivesByteIdentical ==
    proxy.rewritten
    => \A i \in 1..Len(proxy.lines) :
         IsDirective(proxy.lines[i]) => OutLine(i) = proxy.lines[i]

\* C16: in a rewritten manifest every line that begins with 'http://' or
\* 'https://' is in the answer as the origin sent it.
C16_AbsoluteLinesByteIdentical ==
    proxy.rewritten
    => \A i \in 1..Len(proxy.lines) :
         IsHttpUrl(proxy.lines[i]) => OutLine(i) = proxy.lines[i]

\* proxy_m3u8, whose replacement function would wrap it, leaves
\* 'http://c/s4.ts\r' alone next to a reference it wraps
C16_Witness ==
    /\ proxy.rewritten
    /\ proxy.handler = "proxy_m3u8"
    /\ proxy.lines = <<Line.relative, Line.http_cr>>
    /\ OutLine(1) # Line.relative
    /\ OutLine(2) = Line.http_cr

\* C17: in a rewritten manifest every empty line, the one after a trailing
\* newline included, is an empty line of the answer.
C17_BlankLinesStayBlank ==
    proxy.rewritten
    => \A i \in 1..Len(proxy.lines) :
         proxy.lines[i] = <<>> => OutLine(i) = <<>>

\* a line of a manifest that is a reference: not empty, not a directive and
\* not begun with 'http://' or 'https://'
IsReference(line) == line # <<>> /\ ~IsDirective(line) /\ ~IsHttpUrl(line)

\* '<configured-proxy-base>/proxy/'
ProxiedPrefix == configured_base_url \o ProxyPrefix

\* what follows '<configured-proxy-base>/proxy/' in a line of the answer
Encoded(out) == SubSeq(out, Len(ProxiedPrefix) + 1, Len(out))

\* the URL that the encoded part of a proxied line stands for, read the way
\* the handler that made it writes it
DecodedTarget(handler, encoded) ==
    IF handler = "proxy_m3u8_url_encoded" THEN Unquote(encoded)
    ELSE B64Decode(encoded).text

\* C18: in a rewritten manifest every reference is replaced by
\* '<proxy-base>/proxy/<encoded>', and <encoded> decodes to the reference
\* resolved against the URL of the manifest by the standard rules.
C18_ReferencesResolvedAndWrapped ==
    proxy.rewritten
    => \A i \in 1..Len(proxy.lines) :
         IsReference(proxy.lines[i])
         => /\ StartsWith(OutLine(i), ProxiedPrefix)
            /\ DecodedTarget(proxy.handler, Encoded(OutLine(i)))
                 = UrlJoin(proxy.target, proxy.lines[i])

\* the handler that a request for a proxied line of the answer is routed to:
\* '/proxy/' with a query string is proxy_m3u8_url_encoded, '/proxy/' with
\* more path is proxy_m3u8
RoutedTo(out) ==
    IF StartsWith(Encoded(out), <<"?">>) THEN "proxy_m3u8_url_encoded"
    ELSE "proxy_m3u8"

\* C19: every proxied line of a rewritten manifest is addressed in the mode
\* of the request that fetched the manifest: as the query string of /proxy/
\* after a query-encoded request, as a base64url path segment after a
\* path-encoded request.
C19_ReferencesKeepAddressingMode ==
    proxy.rewritten
    => \A i \in 1..Len(proxy.lines) :
         (IsReference(proxy.lines[i]) /\ StartsWith(OutLine(i), ProxiedPrefix))
         => /\ RoutedTo(OutLine(i)) = proxy.handler
            /\ proxy.handler = "proxy_m3u8"
                 => B64Encode(Encode(B64Decode(Encoded(OutLine(i))).text))
                      = Encoded(OutLine(i))

Relayed == proxy.pc = "done" /\ proxy.origin = "ok"

\* the Content-Type the origin sent, <<>> if it sent none
OriginContentType == HeaderGet(HeadersItems(proxy.origin_headers), Hdr.content_type, <<>>)

\* the body the origin sent
OriginBody == Join(proxy.lines, <<"\n">>)

\* C21: a fetched response is rewritten exactly if its Content-Type contains
\* 'application/x-mpegURL', 'audio/mpegurl' or 'application/vnd.apple.mpegurl'
\* or the path of the requested URL, query string aside, ends in '.m3u8';
\* any other response is relayed with its body as it is.
C21_RewrittenIffManifest ==
    Relayed
    => /\ proxy.rewritten
            <=> \/ \E marker \in {Ct.mpegurl, Ct.audio, Ct.apple} :
                        Contains(OriginContentType, marker)
                \/ EndsWith(UrlParse(proxy.target, <<>>).path, M3U8)
       /\ ~proxy.rewritten => proxy.content = OriginBody

\* C22: of the headers of the origin, content-encoding, content-length and
\* transfer-encoding, in whatever case, are not among the headers of a
\* relayed response, and every other one is, with its value.
C22_TransferHeadersStripped ==
    Relayed
    => \A i \in 1..Len(proxy.origin_headers) :
         LET h == proxy.origin_headers[i]
             relayed == \E j \in 1..Len(proxy.headers) :
                           /\ Lower(proxy.headers[j].key) = Lower(h.key)
                           /\ proxy.headers[j].value = h.value IN
         relayed <=> Lower(h.key) \notin
                        {Lower(Hdr.content_encoding), Lower(Hdr.content_length),
                         Lower(Hdr.transfer_encoding)}

\* an answer that came with all three, an ETag and a Content-Type was
\* relayed: the ETag is there, the three are not
C22_Witness ==
    /\ Relayed
    /\ Len(proxy.origin_headers) = 5
    /\ \E j \in 1..Len(proxy.headers) : proxy.headers[j].value = Hdr.tag
    /\ \A j \in 1..Len(proxy.headers) :
         proxy.headers[j].value \notin {Hdr.gzip, Hdr.length, Hdr.chunked}

\* the values of the content-type lines of the response: Starlette sends the
\* entries of the headers argument, and adds media_type only when none of
\* them is named content-type in any case
SentContentTypes ==
    LET own == SelectSeq(proxy.headers, LAMBDA h : Lower(h.key) = Lower(Hdr.content_type)) IN
    IF own # <<>> THEN [i \in 1..Len(own) |-> own[i].value]
    ELSE IF proxy.media_type # <<>> THEN <<proxy.media_type>>
    ELSE <<>>

\* C23: a relayed response has one content-type: 'application/vnd.apple.mpegurl'
\* if the body was rewritten, whatever the origin sent, and else the
\* content-type of the origin.
C23_SingleContentType ==
    Relayed
    => SentContentTypes =
          IF proxy.rewritten THEN <<Ct.apple>>
          ELSE IF OriginContentType # <<>> THEN <<OriginContentType>>
          ELSE SentContentTypes

\* C24: every relayed response, of either handler, rewritten or not, has
\* 'Access-Control-Allow-Origin: *' among its headers.
C24_CorsOnEveryRelayedResponse ==
    Relayed
    => \E j \in 1..Len(proxy.headers) :
         /\ Lower(proxy.headers[j].key) = Lower(Hdr.allow_origin)
         /\ proxy.headers[j].value = Hdr.star

\* C25: when the origin answers the GET with 403, the response of either
\* handler has status 403 and the access-denied message.
C25_ForbiddenIsExplained ==
    (proxy.pc = "done" /\ proxy.origin = "HTTPStatusError" /\ proxy.origin_status = 403)
    => proxy.status_code = 403 /\ proxy.detail = "access denied"

\* C26: no exception leaves a handler, and a request that is over was
\* answered: with 400 when it was refused before any GET, with a 4xx or 5xx
\* status when the GET failed, and else with what the GET brought back.
C26_EveryRequestAnswered ==
    /\ proxy.pc # "raised" /\ proxy.raised = "none"
    /\ proxy.pc = "done"
       => /\ proxy.status_code \in {200, 400, 403, 404, 500}
          /\ proxy.gets = <<>> => proxy.status_code = 400
          /\ (proxy.gets # <<>> /\ proxy.origin # "ok") => proxy.status_code >= 400

\* the GET of the second handler raised an exception that is neither a
\* status error nor a transport error, and the handler answered 500
C26_Witness ==
    /\ proxy.pc = "done"
    /\ proxy.handler = "proxy_m3u8"
    /\ proxy.origin = "InvalidURL"
    /\ proxy.status_code = 500
    /\ proxy.detail = "unknown error"

(***************************************************************************)
(* fetch_video_details, called on its own                                  *)
(***************************************************************************)
\* the longest list of ids a caller passes
MaxIds == 22

\* the longest 'list' of a detail response
MaxRecords == 2

\* the ids of a caller: "1", "2", ... in this order
IdList(n) == [i \in 1..n |-> ToString(i)]

\* a record of a detail 'list': with a vod_id of the batch, one beyond the
\* cap, an empty one, or with no vod_id at all
DetailRecords ==
    {[has_id |-> TRUE, vod_id |-> v] : v \in {"1", "2", "21", ""}}
    \cup {[has_id |-> FALSE, vod_id |-> ""]}

\* what the detail GET ends in: an exception of client.get, raise_for_status
\* or response.json(); a body without a usable 'list'; a 'list' whose items
\* are no objects (detail_item.get raises); a 'list' of records
BatchReplies ==
    {[kind |-> k, list |-> <<>>] :
        k \in {"ConnectError", "ReadTimeout", "HTTPStatusError", "JSONDecodeError",
               "no_list", "AttributeError"}}
    \cup {[kind |-> "list", list |-> l] :
            l \in UNION {[1..n -> DetailRecords] : n \in 1..MaxRecords}}

\* line 561: str(detail_item.get('vod_id'))
KeyOf(detail_item) == IF detail_item.has_id THEN detail_item.vod_id ELSE "None"

\* lines 559-565: the dict of the records whose key is truthy; a later
\* record replaces an earlier one of the same key
RECURSIVE DetailsDict(_, _)
DetailsDict(list, details_dict) ==
    IF list = <<>> THEN details_dict
    ELSE LET video_id == KeyOf(Head(list)) IN
         DetailsDict(Tail(list),
                     IF video_id # "" THEN (video_id :> Head(list)) @@ details_dict
                     ELSE details_dict)

\* lines 543-544: no ids, no request; line 549-553: the GET with the first
\* ids of the list
DetailsCall ==
    /\ batch.pc = "idle"
    /\ \E n \in 0..MaxIds :
        batch' = IF n = 0
                 THEN [batch EXCEPT !.pc = "done"]
                 ELSE [batch EXCEPT !.pc = "await", !.video_ids = IdList(n),
                                    !.requests = Append(@, Take(IdList(n), DetailBatchCap))]
    /\ UNCHANGED <<search_vars, call, proxy, issued>>

\* lines 553-574: the GET ends; 'except Exception' turns every exception
\* into the empty dict
DetailsResponse ==
    /\ batch.pc = "await"
    /\ \E r \in BatchReplies :
        LET b == [batch EXCEPT !.pc = "done", !.reply = r.kind, !.list = r.list] IN
        batch' =
            IF r.kind \in {"list", "no_list"} THEN [b EXCEPT !.details = DetailsDict(r.list, <<>>)]
            ELSE IF Catches(<<"Exception">>, r.kind) = "uncaught"
            THEN [b EXCEPT !.pc = "raised", !.raised = r.kind]
            ELSE [b EXCEPT !.raised = r.kind]
    /\ UNCHANGED <<search_vars, call, proxy, issued>>

BatchInit == SearchInit /\ call = IdleCall /\ proxy = IdleProxy /\ batch = IdleBatch /\ issued = <<>>

BatchNext == DetailsCall \/ DetailsResponse

SpecBatch == BatchInit /\ [][BatchNext]_vars

\* the ids that the records of the response carry
AnsweredIds == {batch.list[i].vod_id : i \in {j \in 1..Len(batch.list) : batch.list[j].has_id}} \ {""}

\* C27: a call with one id or more sends one detail request, with the first
\* 20 ids of the list in their order or with all if they are fewer, and the
\* keys of the dict it returns are the ids of the records the origin
\* answered with, no other.
C27_CappedBatchAndExactKeys ==
    (batch.pc = "done" /\ batch.video_ids # <<>>)
    => /\ Len(batch.requests) = 1
       /\ batch.requests[1] = Take(batch.video_ids, 20)
       /\ batch.reply = "list" => DOMAIN batch.details = AnsweredIds

(***************************************************************************)
(* Properties of the enrichment of search hits                             *)
(***************************************************************************)
\* C28: when the detail request of a source fails, whatever the exception,
\* the detail map is empty, the search of that source makes no further
\* request and does not back off, and it returns one hit per item of the
\* catalog response, in order, with the item's id and the source's key and
\* name (an item that lacks a required base field aside).
C28_DetailFailureKeepsBaseHits ==
    \A k \in Keys :
        task[k].detail_raised # "none"
        => LET list == task[k].response.body.list IN
           /\ task[k].pc = "done"
           /\ task[k].detail_info = {}
           /\ task[k].log[Len(task[k].log)].ev = "detail"
           /\ Gets(k) = task[k].attempt + 1
           /\ (\A i \in 1..Len(list) : list[i].complete)
              => /\ task[k].raised = "none"
                 /\ task[k].ret.kind = "list"
                 /\ Len(task[k].ret.val) = Len(list)
                 /\ \A i \in 1..Len(list) :
                      /\ task[k].ret.val[i].video_id = list[i].vod_id
                      /\ task[k].ret.val[i].source_key = k
                      /\ task[k].ret.val[i].detail = "None"

\* the detail request of a source was answered with an error status, which
\* a search request would back off on: the source returned its two hits
C28_Witness ==
    \E k \in Keys :
        /\ task[k].detail_raised = "HTTPStatusError"
        /\ task[k].ret.kind = "list"
        /\ Len(task[k].ret.val) = 2
        /\ Gets(k) = 1

\* C29: a hit whose id has no record in the detail map of its source has
\* no enrichment at all, remarks included; a hit whose id has a record has
\* the enrichment of that record, and its remarks are the record's or none.
C29_EnrichmentFromOwnRecordOnly ==
    \A k \in Keys :
        (task[k].pc = "done" /\ task[k].ret.kind = "list")
        => \A i \in 1..Len(task[k].ret.val) :
             LET hit == task[k].ret.val[i]
                 found == {d \in task[k].detail_info : d.vod_id = hit.video_id} IN
             IF found = {}
             THEN hit.detail = "None" /\ hit.remarks = "None"
             ELSE /\ hit.detail = hit.video_id
                  /\ hit.remarks = IF \E d \in found : d.vod_remarks THEN "detail" ELSE "None"

(***************************************************************************)
(* hashlib.md5, for a message of at most 55 bytes (one block).  A 32-bit   *)
(* word is a pair <<high, low>> of 16-bit halves.                          *)
(***************************************************************************)
\* a bitwise operation on two 16-bit numbers
RECURSIVE Bits16(_, _, _)
Bits16(op, a, b) ==
    IF a = 0 /\ b = 0 THEN 0
    ELSE (CASE op = "and" -> (a % 2) * (b % 2)
            [] op = "or"  -> IF (a % 2) + (b % 2) > 0 THEN 1 ELSE 0
            [] op = "xor" -> (a + b) % 2)
         + 2 * Bits16(op, a \div 2, b \div 2)

\* the operation on both halves of two words
Bits32(op, x, y) == <<Bits16(op, x[1], y[1]), Bits16(op, x[2], y[2])>>

\* the sum of two words, modulo 2^32
Add32(x, y) ==
    <<(x[1] + y[1] + ((x[2] + y[2]) \div 65536)) % 65536, (x[2] + y[2]) % 65536>>

\* a word rotated left by s bits, 0 < s < 32
Rotl32(x, s) ==
    LET hi == IF s >= 16 THEN x[2] ELSE x[1]
        lo == IF s >= 16 THEN x[1] ELSE x[2]
        up == Pow2(s % 16)
        down == Pow2(16 - (s % 16)) IN
    <<((hi * up) % 65536) + (lo \div down), ((lo * up) % 65536) + (hi \div down)>>

\* the constants of the 64 steps, floor(2^32 * abs(sin(i + 1))), and the
\* rotation of each step
Md5Tables ==
    [K |-> <<<<55146, 42104>>, <<59591, 46934>>, <<9248, 28891>>, <<49597, 52974>>, <<62844,
          4015>>, <<18311, 50730>>, <<43056, 17939>>, <<64838, 38145>>, <<27008,
          39128>>, <<35652, 63407>>, <<65535, 23473>>, <<35164, 55230>>, <<27536,
          4386>>, <<64920, 29075>>, <<42617, 17294>>, <<18868, 2081>>, <<63006,
          9570>>, <<49216, 45888>>, <<9822, 23121>>, <<59830, 51114>>, <<54831,
          4189>>, <<580, 5203>>, <<55457, 59009>>, <<59347, 64456>>, <<8673,
          52710>>, <<49975, 2006>>, <<62677, 3463>>, <<17754, 5357>>, <<43491,
          59653>>, <<64751, 41976>>, <<26479, 729>>, <<36138, 19594>>, <<65530,
          14658>>, <<34673, 63105>>, <<28061, 24866>>, <<64997, 14348>>, <<42174,
          59972>>, <<19422, 53161>>, <<63163, 19296>>, <<48831, 48240>>, <<10395,
          32454>>, <<60065, 10234>>, <<54511, 12421>>, <<1160, 7429>>, <<55764,
          53305>>, <<59099, 39397>>, <<8098, 31992>>, <<50348, 22117>>, <<62505,
          8772>>, <<17194, 65431>>, <<43924, 9127>>, <<64659, 41017>>, <<25947,
          22979>>, <<36620, 52370>>, <<65519, 62589>>, <<34180, 24017>>, <<28584,
          32335>>, <<65068, 59104>>, <<41729, 17172>>, <<19976, 4513>>, <<63315,
          32386>>, <<48442, 62005>>, <<10967, 53947>>, <<60294, 54161>>>>,
     s |-> <<7, 12, 17, 22, 7, 12, 17, 22, 7, 12, 17, 22, 7, 12, 17, 22, 5, 9, 14, 20, 5, 9,
          14, 20, 5, 9, 14, 20, 5, 9, 14, 20, 4, 11, 16, 23, 4, 11, 16, 23, 4, 11,
          16, 23, 4, 11, 16, 23, 6, 10, 15, 21, 6, 10, 15, 21, 6, 10, 15, 21, 6, 10,
          15, 21>>]

\* the function of step i on the words b, c, d
Md5F(i, b, c, d) ==
    LET not_b == <<65535 - b[1], 65535 - b[2]>>
        not_d == <<65535 - d[1], 65535 - d[2]>> IN
    CASE i < 16 -> Bits32("or", Bits32("and", b, c), Bits32("and", not_b, d))
      [] i < 32 -> Bits32("or", Bits32("and", d, b), Bits32("and", not_d, c))
      [] i < 48 -> Bits32("xor", b, Bits32("xor", c, d))
      [] OTHER  -> Bits32("xor", c, Bits32("or", b, not_d))

\* step i on the state <<a, b, c, d>> and the 16 words m of the block
Md5Step(i, st, m) ==
    LET g == CASE i < 16 -> i
               [] i < 32 -> (5 * i + 1) % 16
               [] i < 48 -> (3 * i + 5) % 16
               [] OTHER  -> (7 * i) % 16
        f == Add32(Add32(st[1], Md5F(i, st[2], st[3], st[4])),
                   Add32(Md5Tables.K[i + 1], m[g + 1])) IN
    <<st[4], Add32(st[2], Rotl32(f, Md5Tables.s[i + 1])), st[2], st[3]>>

\* the steps from..to-1 in order: the first half of them, then the second
\* half on the state the first half left
RECURSIVE Md5Steps(_, _, _, _)
Md5Steps(from, to, st, m) ==
    IF to - from = 1 THEN Md5Step(from, st, m)
    ELSE CHOOSE out \in {Md5Steps((from + to) \div 2, to, half, m) :
                            half \in {Md5Steps(from, (from + to) \div 2, st, m)}} : TRUE

\* hashlib.md5(bytes).hexdigest()[:12]: the message is padded with 0x80,
\* zeros and its length in bits and read as 16 little-endian words; the
\* first six bytes of the digest (the word a and half of b, low byte first)
\* are written in hexadecimal
Md5Hex12(bytes) ==
    LET iv == <<<<26437, 8961>>, <<61389, 43913>>, <<39098, 56574>>, <<4146, 21622>>>>
        hex == <<"0", "1", "2", "3", "4", "5", "6", "7", "8", "9",
                 "a", "b", "c", "d", "e", "f">>
        Padded(i) == CASE i <= Len(bytes)     -> bytes[i]
                       [] i = Len(bytes) + 1 -> 128
                       [] i = 57             -> (8 * Len(bytes)) % 256
                       [] i = 58             -> (8 * Len(bytes)) \div 256
                       [] OTHER              -> 0
        Hex(six) == [i \in 1..12 |-> IF i % 2 = 1 THEN hex[(six[(i + 1) \div 2] \div 16) + 1]
                                     ELSE hex[(six[i \div 2] % 16) + 1]]
        Six(a, b) == Hex(<<a[2] % 256, a[2] \div 256, a[1] % 256, a[1] \div 256,
                           b[2] % 256, b[2] \div 256>>)
        Digest(out) == Six(Add32(iv[1], out[1]), Add32(iv[2], out[2])) IN
    Digest(Md5Steps(0, 64, iv,
                    [j \in 1..16 |-> <<Padded(4 * j - 1) + 256 * Padded(4 * j),
                                       Padded(4 * j - 3) + 256 * Padded(4 * j - 2)>>]))

\* lines 100-101: content = f"{movie_title}_{source_name}", and the first
\* 12 hexadecimal digits of its MD5
generate_video_id(movie_title, source_name) ==
    Md5Hex12(Encode(movie_title \o <<"_">> \o source_name))

\* the most calls of generate_video_id that are compared
MaxCalls == 2

\* titles and source names with and without the '_' that joins them
IdInputs ==
    [titles  |-> {<<"a">>, <<"a", "_", "b">>, <<"x">>, <<"a", "_">>},
     sources |-> {<<"c">>, <<"b", "_", "c">>, <<"y">>, <<"_", "c">>}]

\* the id of every pair of a title and a source name, computed once
VideoIds12 ==
    [pair \in IdInputs.titles \X IdInputs.sources |-> generate_video_id(pair[1], pair[2])]

\* line 653: video_id = generate_video_id(movie_title, source_name)
GenerateVideoId ==
    /\ Len(issued) < MaxCalls
    /\ \E movie_title \in IdInputs.titles, source_name \in IdInputs.sources :
        issued' = Append(issued, [movie_title |-> movie_title, source_name |-> source_name,
                                  video_id |-> VideoIds12[<<movie_title, source_name>>]])
    /\ UNCHANGED <<search_vars, call, proxy, batch>>

VideoIdInit == SearchInit /\ call = IdleCall /\ proxy = IdleProxy /\ batch = IdleBatch /\ issued = <<>>

SpecVideoId == VideoIdInit /\ [][GenerateVideoId]_vars

\* C30: two calls of generate_video_id give the same id exactly if they
\* were given the same title and the same source name.
C30_VideoIdStableAndUnique ==
    \A i, j \in 1..Len(issued) :
        issued[i].video_id = issued[j].video_id
        <=> /\ issued[i].movie_title = issued[j].movie_title
            /\ issued[i].source_name = issued[j].source_name

(***************************************************************************)
(* Connection scopes of a source search                                    *)
(***************************************************************************)
\* C31: a source search that has returned has no client scope open, and no
\* two of its outbound requests were carried by the same client scope.
C31_ScopesClosedAndFresh ==
    \A k \in Keys :
        /\ task[k].pc = "done" => task[k].open = {}
        /\ \A i, j \in 1..Len(task[k].carried) :
               i # j => task[k].carried[i] # task[k].carried[j]

(***************************************************************************)
(* The detail loop of get_playback_info                                    *)
(***************************************************************************)
\* C33: get_playback_info issues at most 3 detail requests, every request
\* that is followed by another one is followed first by a sleep of 2^k
\* seconds (k the attempt of the request), and the finished call has
\* returned a player URL.
C33_PlaybackBackoffBetweenRequests ==
    call.op = "playback"
    => /\ Cardinality({i \in 1..Len(call.log) : call.log[i].ev = "get"}) <= pb_max_retries
       /\ \A i \in 1..(Len(call.log) - 1) :
            call.log[i].ev = "get" => call.log[i + 1] = SleepEv(Pow2(call.log[i].n))
       /\ call.pc = "done" => call.web_player_url # "none"

(***************************************************************************)
(* The two handlers on the same manifest                                   *)
(***************************************************************************)
\* the handler that did not serve the request
OtherHandler ==
    IF proxy.handler = "proxy_m3u8" THEN "proxy_m3u8_url_encoded" ELSE "proxy_m3u8"

\* C32: for every line of a rewritten manifest, the handler that served the
\* request and the other handler, given the same manifest URL, either both
\* leave the line unwrapped or both wrap it, and when they wrap it the two
\* encoded parts decode to the same URL.
C32_HandlersResolveAlike ==
    proxy.rewritten
    => \A i \in 1..Len(proxy.lines) :
         LET mine == OutLine(i)
             theirs == SubLine(OtherHandler, proxy.target, proxy.lines[i]) IN
         /\ StartsWith(mine, ProxiedPrefix) <=> StartsWith(theirs, ProxiedPrefix)
         /\ (StartsWith(mine, ProxiedPrefix) /\ StartsWith(theirs, ProxiedPrefix))
              => DecodedTarget(proxy.handler, Encoded(mine))
                   = DecodedTarget(OtherHandler, Encoded(theirs))

(***************************************************************************)
(* The hit list of one source                                              *)
(***************************************************************************)
\* C34: the list a source task returns is empty or has exactly one hit per
\* item of the origin's list, in the origin's order, for the task's source;
\* when an item of that list cannot be built into a hit the list is empty.
C34_HitListAllOrNothing ==
    \A k \in Keys :
        (task[k].pc = "done" /\ task[k].ret.kind = "list")
        => LET list == task[k].response.body.list
               videos == task[k].ret.val IN
           /\ \/ videos = <<>>
              \/ /\ Len(videos) = Len(list)
                 /\ \A i \in 1..Len(list) :
                      /\ videos[i].video_id = list[i].vod_id
                      /\ videos[i].source_key = k
           /\ (\E i \in 1..Len(list) : ~list[i].complete) => videos = <<>>

\* a task ended with [] on a list whose first item can be built and whose
\* second cannot
C34_Witness ==
    \E k \in Keys :
        LET list == task[k].response.body.list IN
        /\ task[k].pc = "done" /\ task[k].ret = Returned(<<>>)
        /\ task[k].raised = "ValidationError"
        /\ Len(list) = 2 /\ list[1].complete /\ ~list[2].complete

====
